---- MODULE Spec2Model ----
(***************************************************************************)
(* Static code analysis engine of project-analyzer-mcp.                    *)
(*                                                                         *)
(* Two implementations of CodeAnalyzer live in the repository: the         *)
(* package one (src/src/analyzers/code_analyzer.py, used by                *)
(* src/src/core/analyzer.py) and the stand-alone one (src/code_analyzer.py,*)
(* used by src/project_analyzer_server.py).  The variable impl selects     *)
(* which of the two a behaviour runs.                                      *)
(***************************************************************************)
EXTENDS Integers, Sequences, FiniteSets, TLC

VARIABLES
    impl,        \* "pkg" (src/src/analyzers) or "legacy" (src/code_analyzer.py)
    root,        \* str(self.project_root)
    rootExists,  \* whether the root directory exists on disk
    tree,        \* the .py candidates on disk under root, in enumeration order
    sysPath,     \* sys.path
    sysModules,  \* names cached in sys.modules
    errors,      \* self.errors of the analyzer
    warnings,    \* self.warnings of the analyzer
    status,      \* outcome of the last entry-point call: "idle", "returned", "raised"
    result,      \* the mapping handed back by the last call that returned
    call,        \* the last entry-point call: [op, atype]
    handed,      \* python_files handed to the passes by the last call
    passesRun,   \* the passes the last call ran
    pathBefore,  \* sys.path when the last call started
    prev,        \* the call before the last one and what it returned, kept
                 \* when the last call repeats it
    runs,        \* number of entry-point calls made so far
    thr,         \* concurrent import passes: thread -> its position and locals
    srv          \* the MCP server: its configuration, the request in progress
                 \* and the last response

vars == <<impl, root, rootExists, tree, sysPath, sysModules, errors, warnings,
          status, result, call, handed, passesRun, pathBefore, prev, runs, thr,
          srv>>

(***************************************************************************)
(* Bounds.                                                                 *)
(***************************************************************************)
MaxFiles == 2     \* files in the tree of the main specification
MaxRuns == 2      \* entry-point calls per behaviour
MaxParams == 3    \* parameters of a definition (arity / method inputs)
MaxArgs == 4      \* positional arguments of a call (arity inputs)
MaxKw == 1        \* keyword arguments of a call (arity inputs)
MaxAttempts == 2  \* module-resolution attempts of one concurrent import pass

(***************************************************************************)
(* Strings (str methods used by the analyzers).                            *)
(***************************************************************************)
\* p in s
Contains(s, p) ==
    \E i \in 1..(Len(s) - Len(p) + 1) : SubSeq(s, i, i + Len(p) - 1) = p

\* s.startswith(p)
StartsWith(s, p) == Len(s) >= Len(p) /\ SubSeq(s, 1, Len(p)) = p

\* s.endswith(p)
EndsWith(s, p) == Len(s) >= Len(p) /\ SubSeq(s, Len(s) - Len(p) + 1, Len(s)) = p

UpperChars == {"A", "B", "C", "D", "E", "F", "G", "H", "I", "J", "K", "L", "M",
               "N", "O", "P", "Q", "R", "S", "T", "U", "V", "W", "X", "Y", "Z"}
LowerChars == {"a", "b", "c", "d", "e", "f", "g", "h", "i", "j", "k", "l", "m",
               "n", "o", "p", "q", "r", "s", "t", "u", "v", "w", "x", "y", "z"}

\* s.isupper(): at least one cased character and no lower-case one
IsUpper(s) ==
    /\ \E i \in 1..Len(s) : SubSeq(s, i, i) \in UpperChars
    /\ \A i \in 1..Len(s) : SubSeq(s, i, i) \notin LowerChars

\* "/".join(parts), each part followed by the separator
RECURSIVE JoinDirs(_)
JoinDirs(ds) == IF ds = <<>> THEN "" ELSE Head(ds) \o "/" \o JoinDirs(Tail(ds))

\* ".".join(parts)
RECURSIVE JoinDots(_)
JoinDots(ps) ==
    IF ps = <<>> THEN ""
    ELSE IF Len(ps) = 1 THEN Head(ps)
    ELSE Head(ps) \o "." \o JoinDots(Tail(ps))

\* elements of a sequence
Range(s) == {s[i] : i \in 1..Len(s)}

\* number of occurrences of x in the sequence s
Count(s, x) == Cardinality({i \in 1..Len(s) : s[i] = x})

\* the two sequences hold the same elements with the same multiplicities
SameMultiset(s, t) ==
    /\ Len(s) = Len(t)
    /\ \A x \in Range(s) \cup Range(t) : Count(s, x) = Count(t, x)

(***************************************************************************)
(* Syntax trees.  A parsed file is the sequence of its nodes in the order  *)
(* ast.walk yields them (breadth first), each node a record of the         *)
(* attributes the passes read.                                             *)
(*   cls   : for a FunctionDef, the index of the ClassDef whose body holds *)
(*           it directly (0 when it is not a direct class member)          *)
(*   top   : the node is a statement of the module body                    *)
(*   names : aliases of an import (name, asname; asname "" is None),       *)
(*           target ids of an Assign ("" for a target that is not a Name)  *)
(*   args  : args.args of a FunctionDef (parameter names)                  *)
(*   decos : decorator_list, the id of each Name decorator ("" otherwise)  *)
(***************************************************************************)
Node(type, name, names, args, decos, n1, n2, lineno, cls, top) ==
    [type |-> type, name |-> name, names |-> names, args |-> args,
     decos |-> decos, n1 |-> n1, n2 |-> n2, lineno |-> lineno,
     cls |-> cls, top |-> top]

Alias(name, asname) == [name |-> name, asname |-> asname]

ImportN(aliases, lineno, top) ==
    Node("Import", "", aliases, <<>>, <<>>, 0, 0, lineno, 0, top)
ImportFromN(module, aliases, lineno, top) ==
    Node("ImportFrom", module, aliases, <<>>, <<>>, 0, 0, lineno, 0, top)
\* a call; fname is func.id when func is a Name, "" when it is not
CallN(fname, nargs, nkw, lineno) ==
    Node("Call", fname, <<>>, <<>>, <<>>, nargs, nkw, lineno, 0, FALSE)
\* a function definition with ndefaults = len(args.defaults)
FuncN(name, args, ndefaults, decos, lineno, cls) ==
    Node("FunctionDef", name, <<>>, args, decos, ndefaults, 0, lineno, cls, cls = 0)
ClassN(name, lineno) ==
    Node("ClassDef", name, <<>>, <<>>, <<>>, 0, 0, lineno, 0, TRUE)
AssignN(targets, lineno, top) ==
    Node("Assign", "", targets, <<>>, <<>>, 0, 0, lineno, 0, top)
LoadN(id, lineno) ==
    Node("NameLoad", id, <<>>, <<>>, <<>>, 0, 0, lineno, 0, FALSE)
StoreN(id, lineno) ==
    Node("NameStore", id, <<>>, <<>>, <<>>, 0, 0, lineno, 0, FALSE)

(***************************************************************************)
(* Files on disk.                                                          *)
(*   dirs    : directory names between the root and the file               *)
(*   name    : file name                                                   *)
(*   read    : "ok", "oserror" (open fails), "undecodable" (not UTF-8)     *)
(*   synline : 0 when the text parses, else the line of the SyntaxError    *)
(*   nodes   : the tree of a file that parses                              *)
(***************************************************************************)
File(dirs, name, read, synline, nodes) ==
    [dirs |-> dirs, name |-> name, read |-> read, synline |-> synline,
     nodes |-> nodes]

\* str(py_file)
PathStr(r, f) == r \o "/" \o JoinDirs(f.dirs) \o f.name

(***************************************************************************)
(* File discovery.                                                         *)
(***************************************************************************)
\* the literal list of FileUtils.get_python_files
PkgSkipParts == {"__pycache__", ".pytest_cache", "venv", ".venv"}

\* the test of FileUtils.get_python_files on one rglob("*.py") hit: keep the
\* path unless its string contains one of the parts
KeepPkg(r, f) ==
    /\ EndsWith(f.name, ".py")
    /\ ~\E part \in PkgSkipParts : Contains(PathStr(r, f), part)

\* skip_dirs of CodeAnalyzer._get_python_files
LegacySkipDirs == {"venv", "__pycache__", ".git", "storage", ".pytest_cache",
                   "node_modules", "mcp-servers"}

\* the test of CodeAnalyzer._get_python_files: os.walk never descends into a
\* directory named in skip_dirs, and keeps the files ending in .py
KeepLegacy(f) ==
    /\ EndsWith(f.name, ".py")
    /\ \A i \in 1..Len(f.dirs) : f.dirs[i] \notin LegacySkipDirs

\* the files of s that the implementation's test keeps, order preserved
RECURSIVE SelectFiles(_, _, _, _)
SelectFiles(im, r, s, i) ==
    IF i > Len(s) THEN <<>>
    ELSE LET keep == IF im = "pkg" THEN KeepPkg(r, s[i]) ELSE KeepLegacy(s[i])
         IN  (IF keep THEN <<s[i]>> ELSE <<>>) \o SelectFiles(im, r, s, i + 1)

\* FileUtils.get_python_files
GetPythonFilesPkg(r, exists, files) ==
    IF exists THEN SelectFiles("pkg", r, files, 1) ELSE <<>>

\* CodeAnalyzer._get_python_files
GetPythonFilesLegacy(r, exists, files) ==
    IF exists THEN SelectFiles("legacy", r, files, 1) ELSE <<>>

GetPythonFiles(im, r, exists, files) ==
    IF im = "pkg" THEN GetPythonFilesPkg(r, exists, files)
    ELSE GetPythonFilesLegacy(r, exists, files)

(***************************************************************************)
(* Findings: the text appended to errors / warnings, kept as the record of *)
(* the values formatted into it.                                           *)
(***************************************************************************)
Finding(kind, file, line, name, n1, n2) ==
    [kind |-> kind, file |-> file, line |-> line, name |-> name,
     n1 |-> n1, n2 |-> n2]

\* the analyzer state a pass works on; raised is set when a BaseException
\* that no handler of the analyzer catches is unwinding
AddError(st, f) == [st EXCEPT !.errors = Append(@, f)]
AddWarning(st, f) == [st EXCEPT !.warnings = Append(@, f)]

(***************************************************************************)
(* Syntax pass.                                                            *)
(***************************************************************************)
\* SyntaxOnePkg without the UnicodeDecodeError handler ahead of the others: a
\* file that cannot be decoded is reported like one that does not parse
SyntaxOnePkgDecodeAsError(st, r, f) ==
    IF f.read = "undecodable"
    THEN AddError(st, Finding("Syntax error", PathStr(r, f), 0, "", 0, 0))
    ELSE IF f.read = "oserror"
    THEN AddWarning(st, Finding("Error reading", PathStr(r, f), 0, "", 0, 0))
    ELSE IF f.synline > 0
    THEN AddError(st, Finding("Syntax error", PathStr(r, f), f.synline, "", 0, 0))
    ELSE st

\* one iteration of the loop of _check_syntax_errors (package)
SyntaxOnePkg(st, r, f) ==
    IF f.read = "undecodable"
    THEN AddWarning(st, Finding("Could not decode", PathStr(r, f), 0, "", 0, 0))
    ELSE IF f.read = "oserror"
    THEN AddWarning(st, Finding("Error reading", PathStr(r, f), 0, "", 0, 0))
    ELSE IF f.synline > 0
    THEN AddError(st, Finding("Syntax error", PathStr(r, f), f.synline, "", 0, 0))
    ELSE st

\* one iteration of the loop of _check_syntax_errors (stand-alone)
SyntaxOneLegacy(st, r, f) ==
    IF f.read # "ok"
    THEN AddWarning(st, Finding("Could not parse", PathStr(r, f), 0, "", 0, 0))
    ELSE IF f.synline > 0
    THEN AddError(st, Finding("SYNTAX ERROR", PathStr(r, f), f.synline, "", 0, 0))
    ELSE st

RECURSIVE CheckSyntaxErrors(_, _, _, _, _)
CheckSyntaxErrors(im, st, r, files, i) ==
    IF i > Len(files) \/ st.raised THEN st
    ELSE CheckSyntaxErrors(im,
             IF im = "pkg" THEN SyntaxOnePkg(st, r, files[i])
             ELSE SyntaxOneLegacy(st, r, files[i]),
             r, files, i + 1)

(***************************************************************************)
(* The module system the import pass resolves against.                     *)
(***************************************************************************)
\* what executing the module does the first time it is imported:
\*   "found"       it loads
\*   "found_path"  it loads and appends PluginDir to sys.path while loading
\*   "ImportError" no module of that name can be found
\*   "Exception"   its top-level code raises an Exception
\*   "SystemExit"  its top-level code calls sys.exit()
ModuleTable(m) ==
    CASE m = "os"            -> "found"
      [] m = "loguru"        -> "found"
      [] m = "plugin_loader" -> "found_path"
      [] m = "pandas"        -> "ImportError"
      [] m = "missing_mod"   -> "ImportError"
      [] m = "pkg.missing"   -> "ImportError"
      [] m = "_hidden"       -> "ImportError"
      [] m = "broken_mod"    -> "Exception"
      [] m = "exiting_mod"   -> "SystemExit"
      [] OTHER               -> "ImportError"

PluginDir == "/opt/plugins"

\* importlib.import_module(m): a cached module is returned as is, any other
\* one is executed; a module whose execution fails is not cached
ImportModule(st, m) ==
    IF m \in st.sysModules THEN [out |-> "found", st |-> st]
    ELSE LET o == ModuleTable(m) IN
         IF o = "found"
         THEN [out |-> "found",
               st |-> [st EXCEPT !.sysModules = @ \cup {m}]]
         ELSE IF o = "found_path"
         THEN [out |-> "found",
               st |-> [st EXCEPT !.sysModules = @ \cup {m},
                                 !.sysPath = Append(@, PluginDir)]]
         ELSE [out |-> o, st |-> st]

(***************************************************************************)
(* Import pass, package implementation.                                    *)
(***************************************************************************)
\* sys.path.insert(0, str(self.project_root)) unless the root is on it
WithRoot(st, r) ==
    IF r \notin Range(st.sysPath) THEN [st EXCEPT !.sysPath = <<r>> \o @] ELSE st

\* the except clauses of _check_module_exists, applied to what import_module
\* did: ImportError is a warning for a dotted or underscore name and an error
\* for any other, another Exception is a warning, anything else unwinds
ClassifyImport(imp, m, file) ==
    IF imp.out = "found" THEN imp.st
    ELSE IF imp.out = "ImportError"
    THEN IF Contains(m, ".") \/ StartsWith(m, "_")
         THEN AddWarning(imp.st, Finding("Potential missing module", file, 0, m, 0, 0))
         ELSE AddError(imp.st, Finding("Cannot import", file, 0, m, 0, 0))
    ELSE IF imp.out = "Exception"
    THEN AddWarning(imp.st, Finding("Error checking module", file, 0, m, 0, 0))
    ELSE [imp.st EXCEPT !.raised = TRUE]

\* _check_module_exists without its finally clause: insert, resolve, classify
CheckModuleExistsBody(st, r, m, file) ==
    ClassifyImport(ImportModule(WithRoot(st, r), m), m, file)

\* the finally clause of _check_module_exists
RestorePath(st, original_path) == [st EXCEPT !.sysPath = original_path]

\* _check_module_exists: original_path is the copy of sys.path taken on entry
CheckModuleExists(st, r, m, file) ==
    RestorePath(CheckModuleExistsBody(st, r, m, file), st.sysPath)

\* the module names one node makes _check_import_errors resolve
ImportedModules(node) ==
    IF node.type = "Import" THEN [i \in 1..Len(node.names) |-> node.names[i].name]
    ELSE IF node.type = "ImportFrom" /\ node.name # "" THEN <<node.name>>
    ELSE <<>>

RECURSIVE CheckModules(_, _, _, _, _)
CheckModules(st, r, ms, file, i) ==
    IF i > Len(ms) \/ st.raised THEN st
    ELSE CheckModules(CheckModuleExists(st, r, ms[i], file), r, ms, file, i + 1)

\* the loop over ast.walk(tree) of _check_import_errors
RECURSIVE WalkImports(_, _, _, _, _)
WalkImports(st, r, nodes, file, i) ==
    IF i > Len(nodes) \/ st.raised THEN st
    ELSE WalkImports(CheckModules(st, r, ImportedModules(nodes[i]), file, 1),
                     r, nodes, file, i + 1)

\* ImportOnePkg that reports a file it cannot parse as an error
ImportOnePkgParseFailureAsError(st, r, f) ==
    IF f.read # "ok" \/ f.synline > 0
    THEN AddError(st, Finding("Could not check imports", PathStr(r, f), 0, "", 0, 0))
    ELSE WalkImports(st, r, f.nodes, PathStr(r, f), 1)

\* one iteration of the loop of _check_import_errors (package)
ImportOnePkg(st, r, f) ==
    IF f.read # "ok" \/ f.synline > 0
    THEN AddWarning(st, Finding("Could not check imports", PathStr(r, f), 0, "", 0, 0))
    ELSE WalkImports(st, r, f.nodes, PathStr(r, f), 1)

RECURSIVE CheckImportErrorsPkg(_, _, _, _)
CheckImportErrorsPkg(st, r, files, i) ==
    IF i > Len(files) \/ st.raised THEN st
    ELSE CheckImportErrorsPkg(ImportOnePkg(st, r, files[i]), r, files, i + 1)

(***************************************************************************)
(* Import pass, stand-alone implementation: it imports every project file  *)
(* as a module.                                                            *)
(***************************************************************************)
\* the literal list of optional dependencies
OptionalPackages == {"selenium", "streamlit", "loguru", "pandas", "playwright"}

\* rel_path.stem of a .py file
Stem(name) == IF EndsWith(name, ".py") THEN SubSeq(name, 1, Len(name) - 3) ELSE name

\* ".".join(list(rel_path.parts[:-1]) + [rel_path.stem])
ModuleNameOf(f) == JoinDots(f.dirs \o <<Stem(f.name)>>)

\* the modules the top-level code of a file imports, in order
RECURSIVE TopLevelImports(_, _)
TopLevelImports(nodes, i) ==
    IF i > Len(nodes) THEN <<>>
    ELSE (IF nodes[i].top THEN ImportedModules(nodes[i]) ELSE <<>>)
         \o TopLevelImports(nodes, i + 1)

\* executing the imports of a module body: stops at the first one that fails
RECURSIVE ExecImports(_, _, _)
ExecImports(st, ms, i) ==
    IF i > Len(ms) THEN [out |-> "found", st |-> st, missing |-> ""]
    ELSE LET imp == ImportModule(st, ms[i]) IN
         IF imp.out = "found" THEN ExecImports(imp.st, ms, i + 1)
         ELSE [out |-> imp.out, st |-> imp.st, missing |-> ms[i]]

\* del sys.modules[module_name]
Uncache(st, f) == [st EXCEPT !.sysModules = @ \ {ModuleNameOf(f)}]

\* a module whose body ran to its end is entered in sys.modules
CacheIfFound(e, f) ==
    IF e.out = "found" THEN [e EXCEPT !.st.sysModules = @ \cup {ModuleNameOf(f)}]
    ELSE e

\* importlib.import_module(module_name) of a project file, after the
\* del sys.modules[module_name]
ImportFile(st, f) ==
    IF f.read # "ok" \/ f.synline > 0
    THEN [out |-> "Exception", st |-> Uncache(st, f), missing |-> ""]
    ELSE CacheIfFound(ExecImports(Uncache(st, f), TopLevelImports(f.nodes, 1), 1), f)

\* str(e) of the ImportError for a module that is not found
NoModuleNamed(m) == "No module named '" \o m \o "'"

\* the except clauses of the loop of _check_import_errors (stand-alone),
\* applied to what import_module did
ClassifyLegacy(imp, path) ==
    LET error_msg == NoModuleNamed(imp.missing)
    IN  IF imp.out = "found" THEN imp.st
        ELSE IF imp.out = "ImportError"
        THEN IF Contains(error_msg, "No module named")
             THEN IF \E pkg \in OptionalPackages : Contains(error_msg, pkg)
                  THEN AddWarning(imp.st, Finding("MISSING DEPENDENCY", path, 0, imp.missing, 0, 0))
                  ELSE AddError(imp.st, Finding("IMPORT ERROR", path, 0, imp.missing, 0, 0))
             ELSE AddError(imp.st, Finding("IMPORT ERROR", path, 0, imp.missing, 0, 0))
        ELSE IF imp.out = "Exception"
        THEN AddError(imp.st, Finding("IMPORT ERROR", path, 0, imp.missing, 0, 0))
        ELSE [imp.st EXCEPT !.raised = TRUE]

\* one iteration of the loop of _check_import_errors (stand-alone)
ImportOneLegacy(st, r, f) ==
    IF f.name = "__init__.py" \/ Contains(JoinDirs(f.dirs) \o f.name, "venv")
    THEN st
    ELSE ClassifyLegacy(ImportFile(st, f), PathStr(r, f))

RECURSIVE ImportLoopLegacy(_, _, _, _)
ImportLoopLegacy(st, r, files, i) ==
    IF i > Len(files) \/ st.raised THEN st
    ELSE ImportLoopLegacy(ImportOneLegacy(st, r, files[i]), r, files, i + 1)

\* list.remove(x): drops the first occurrence
RECURSIVE RemoveFirst(_, _)
RemoveFirst(s, x) ==
    IF s = <<>> THEN <<>>
    ELSE IF Head(s) = x THEN Tail(s)
    ELSE <<Head(s)>> \o RemoveFirst(Tail(s), x)

\* the statements after the loop of _check_import_errors (stand-alone); an
\* exception leaving the loop skips them
RemoveRoot(st, r) ==
    IF st.raised THEN st
    ELSE IF r \in Range(st.sysPath) THEN [st EXCEPT !.sysPath = RemoveFirst(@, r)]
    ELSE st

\* _check_import_errors (stand-alone): insert the root, loop, remove it
CheckImportErrorsLegacy(st, r, files) ==
    RemoveRoot(ImportLoopLegacy([st EXCEPT !.sysPath = <<r>> \o @], r, files, 1), r)

CheckImportErrors(im, st, r, files) ==
    IF st.raised THEN st
    ELSE IF im = "pkg" THEN CheckImportErrorsPkg(st, r, files, 1)
    ELSE CheckImportErrorsLegacy(st, r, files)

(***************************************************************************)
(* Call/definition arity pass (the same code in both implementations).     *)
(***************************************************************************)
\* args_count of a definition: len(args.args), minus one for a leading self
TotalArgs(node) ==
    IF Len(node.args) > 0 /\ node.args[1] = "self" THEN Len(node.args) - 1
    ELSE Len(node.args)

\* required_args = args_count - defaults_count
RequiredArgs(node) == TotalArgs(node) - node.n1

\* function_defs after the walk: a later definition of a name replaces an
\* earlier one, so the entry of a name is its last definition in walk order
FunctionDefs(nodes) ==
    LET names == {nodes[i].name : i \in {j \in 1..Len(nodes) : nodes[j].type = "FunctionDef"}}
        Last(n) == CHOOSE i \in 1..Len(nodes) :
                      /\ nodes[i].type = "FunctionDef" /\ nodes[i].name = n
                      /\ \A j \in (i + 1)..Len(nodes) :
                            ~(nodes[j].type = "FunctionDef" /\ nodes[j].name = n)
    IN  [n \in names |-> [required_args |-> RequiredArgs(nodes[Last(n)]),
                          total_args |-> TotalArgs(nodes[Last(n)]),
                          line |-> nodes[Last(n)].lineno]]

\* CheckCall with the upper comparison off by one (>= instead of >)
CheckCallMaxInclusive(st, file, node, defs) ==
    IF node.name \in DOMAIN defs
    THEN LET func_def == defs[node.name]
             total_provided == node.n1 + node.n2
         IN  IF total_provided < func_def.required_args
             THEN AddError(st, Finding("PARAMETER ERROR requires", file, node.lineno,
                                       node.name, func_def.required_args, total_provided))
             ELSE IF total_provided >= func_def.total_args
             THEN AddError(st, Finding("PARAMETER ERROR max", file, node.lineno,
                                       node.name, func_def.total_args, total_provided))
             ELSE st
    ELSE st

\* the body of the "check for mismatches" loop for one recorded call
CheckCall(st, file, node, defs) ==
    IF node.name \in DOMAIN defs
    THEN LET func_def == defs[node.name]
             total_provided == node.n1 + node.n2
         IN  IF total_provided < func_def.required_args
             THEN AddError(st, Finding("PARAMETER ERROR requires", file, node.lineno,
                                       node.name, func_def.required_args, total_provided))
             ELSE IF total_provided > func_def.total_args
             THEN AddError(st, Finding("PARAMETER ERROR max", file, node.lineno,
                                       node.name, func_def.total_args, total_provided))
             ELSE st
    ELSE st

\* function_calls holds the calls whose func is a Name, in walk order
RECURSIVE CheckCalls(_, _, _, _, _)
CheckCalls(st, file, nodes, defs, i) ==
    IF i > Len(nodes) THEN st
    ELSE CheckCalls(IF nodes[i].type = "Call" /\ nodes[i].name # ""
                    THEN CheckCall(st, file, nodes[i], defs) ELSE st,
                    file, nodes, defs, i + 1)

\* one iteration of the loop of _check_parameter_mismatches
ParamsOne(im, st, r, f) ==
    IF f.read # "ok" \/ f.synline > 0
    THEN AddWarning(st, Finding(IF im = "pkg" THEN "Could not check parameters for"
                                ELSE "Could not check parameters in",
                                PathStr(r, f), 0, "", 0, 0))
    ELSE CheckCalls(st, PathStr(r, f), f.nodes, FunctionDefs(f.nodes), 1)

RECURSIVE CheckParameterMismatches(_, _, _, _, _)
CheckParameterMismatches(im, st, r, files, i) ==
    IF i > Len(files) \/ st.raised THEN st
    ELSE CheckParameterMismatches(im, ParamsOne(im, st, r, files[i]), r, files, i + 1)

(***************************************************************************)
(* Undefined-name pass.                                                    *)
(***************************************************************************)
\* the list the stand-alone implementation seeds defined_names with
BuiltinNames ==
    {"print", "str", "int", "float", "list", "dict", "len", "range",
     "enumerate", "Exception", "ValueError", "TypeError", "ImportError",
     "KeyError", "AttributeError", "FileNotFoundError", "SyntaxError",
     "KeyboardInterrupt", "StopIteration", "isinstance", "hasattr",
     "getattr", "setattr", "delattr", "bool", "tuple", "set", "max",
     "min", "sum", "abs", "all", "any", "open", "iter", "next", "zip",
     "map", "filter", "sorted", "reversed", "format", "repr", "hash",
     "id", "type", "super", "property", "staticmethod", "classmethod",
     "callable", "vars", "dir", "globals", "locals", "exec", "eval",
     "compile", "input", "round", "pow", "divmod", "chr", "ord"}

\* defined_names before the walk: empty in the package implementation
SeedNames(im) == IF im = "pkg" THEN {} ELSE BuiltinNames

\* alias.asname or alias.name
BoundName(alias) == IF alias.asname # "" THEN alias.asname ELSE alias.name

\* the names one node adds to defined_names
NamesBoundBy(node) ==
    IF node.type \in {"Import", "ImportFrom"}
    THEN {BoundName(node.names[i]) : i \in 1..Len(node.names)}
    ELSE IF node.type = "Assign"
    THEN {node.names[i] : i \in {j \in 1..Len(node.names) : node.names[j] # ""}}
    ELSE IF node.type \in {"FunctionDef", "ClassDef"}
    THEN {node.name}
    ELSE {}

\* NameFlagged without the exemption of upper-case names
NameFlaggedUpperChecked(id, defined_names) ==
    id \notin defined_names /\ ~StartsWith(id, "_")

\* whether the walk appends a warning for a read of id
NameFlagged(id, defined_names) ==
    id \notin defined_names /\ ~(StartsWith(id, "_") \/ IsUpper(id))

\* the single walk of _check_undefined_variables: a node either binds names
\* or, when it is a Name in Load context, is checked against the names bound
\* by the nodes visited before it
RECURSIVE WalkNames(_, _, _, _, _)
WalkNames(st, file, nodes, defined_names, i) ==
    IF i > Len(nodes) THEN st
    ELSE LET node == nodes[i] IN
         IF node.type = "NameLoad"
         THEN WalkNames(IF NameFlagged(node.name, defined_names)
                        THEN AddWarning(st, Finding("UNDEFINED VARIABLE", file,
                                                    node.lineno, node.name, 0, 0))
                        ELSE st,
                        file, nodes, defined_names, i + 1)
         ELSE WalkNames(st, file, nodes, defined_names \cup NamesBoundBy(node), i + 1)

\* one iteration of the loop of _check_undefined_variables
VariablesOne(im, st, r, f) ==
    IF f.read # "ok" \/ f.synline > 0
    THEN AddWarning(st, Finding(IF im = "pkg" THEN "Could not check variables for"
                                ELSE "Could not check undefined variables in",
                                PathStr(r, f), 0, "", 0, 0))
    ELSE WalkNames(st, PathStr(r, f), f.nodes, SeedNames(im), 1)

RECURSIVE CheckUndefinedVariables(_, _, _, _, _)
CheckUndefinedVariables(im, st, r, files, i) ==
    IF i > Len(files) \/ st.raised THEN st
    ELSE CheckUndefinedVariables(im, VariablesOne(im, st, r, files[i]), r, files, i + 1)

(***************************************************************************)
(* Method-signature pass (the same code in both implementations).          *)
(***************************************************************************)
\* any(isinstance(dec, ast.Name) and dec.id in [...] for dec in decorator_list)
HasDecorator(item) ==
    \E i \in 1..Len(item.decos) : item.decos[i] \in {"staticmethod", "classmethod"}

\* MethodFlagged that also takes cls for a receiver
MethodFlaggedClsAccepted(item) ==
    IF Len(item.args) > 0
    THEN /\ item.args[1] \notin {"self", "cls"}
         /\ ~StartsWith(item.name, "_")
         /\ ~HasDecorator(item)
    ELSE TRUE

\* whether the body of "for item in node.body" appends an error for item
MethodFlagged(item) ==
    IF Len(item.args) > 0
    THEN /\ item.args[1] # "self"
         /\ ~StartsWith(item.name, "_")
         /\ ~HasDecorator(item)
    ELSE TRUE

\* for node in ast.walk(tree): if ClassDef: for item in node.body: if
\* FunctionDef: ...  Every FunctionDef sits in the body of at most one class,
\* and the classes are visited in walk order.
RECURSIVE CheckClassBody(_, _, _, _, _)
CheckClassBody(st, file, nodes, c, i) ==
    IF i > Len(nodes) THEN st
    ELSE CheckClassBody(IF nodes[i].type = "FunctionDef" /\ nodes[i].cls = c
                           /\ MethodFlagged(nodes[i])
                        THEN AddError(st, Finding("METHOD ERROR", file, nodes[i].lineno,
                                                  nodes[i].name, 0, 0))
                        ELSE st,
                        file, nodes, c, i + 1)

RECURSIVE WalkClasses(_, _, _, _)
WalkClasses(st, file, nodes, c) ==
    IF c > Len(nodes) THEN st
    ELSE WalkClasses(IF nodes[c].type = "ClassDef"
                     THEN CheckClassBody(st, file, nodes, c, 1) ELSE st,
                     file, nodes, c + 1)

\* one iteration of the loop of _check_class_method_signatures
MethodsOne(im, st, r, f) ==
    IF f.read # "ok" \/ f.synline > 0
    THEN AddWarning(st, Finding(IF im = "pkg" THEN "Could not check class methods for"
                                ELSE "Could not check class methods in",
                                PathStr(r, f), 0, "", 0, 0))
    ELSE WalkClasses(st, PathStr(r, f), f.nodes, 1)

RECURSIVE CheckClassMethodSignatures(_, _, _, _, _)
CheckClassMethodSignatures(im, st, r, files, i) ==
    IF i > Len(files) \/ st.raised THEN st
    ELSE CheckClassMethodSignatures(im, MethodsOne(im, st, r, files[i]), r, files, i + 1)

(***************************************************************************)
(* Entry points.  Each returns the analyzer state after the call, the file *)
(* list it handed to the passes and the passes it started.                 *)
(***************************************************************************)
PassNames == {"syntax", "imports", "parameters", "variables", "methods"}

\* Reset that leaves the lists of the previous run in place
ResetKeepsLists(st) == [st EXCEPT !.raised = FALSE]

\* self.errors = []; self.warnings = []
Reset(st) == [st EXCEPT !.errors = <<>>, !.warnings = <<>>, !.raised = FALSE]

\* one pass over the file list
RunPass(im, pass, st, r, files) ==
    CASE pass = "syntax"     -> CheckSyntaxErrors(im, st, r, files, 1)
      [] pass = "imports"    -> CheckImportErrors(im, st, r, files)
      [] pass = "parameters" -> CheckParameterMismatches(im, st, r, files, 1)
      [] pass = "variables"  -> CheckUndefinedVariables(im, st, r, files, 1)
      [] pass = "methods"    -> CheckClassMethodSignatures(im, st, r, files, 1)

\* the order in which analyze_all calls the passes
AllPasses == <<"syntax", "imports", "parameters", "variables", "methods">>

\* the passes run one after the other over the files handed to them; an
\* exception that unwinds out of one of them skips the ones after it
RECURSIVE RunPasses(_, _, _, _, _, _)
RunPasses(im, ps, st, r, files, i) ==
    IF i > Len(ps) \/ st.raised
    THEN [st |-> st, files |-> files, passes |-> {ps[j] : j \in 1..(i - 1)}]
    ELSE RunPasses(im, ps, RunPass(im, ps[i], st, r, files), r, files, i + 1)

\* CodeAnalyzer.analyze_all (both implementations)
AnalyzeAllOp(im, st, r, exists, files) ==
    RunPasses(im, AllPasses, Reset(st), r, GetPythonFiles(im, r, exists, files), 1)

\* CodeAnalyzer.analyze_specific of the package
AnalyzeSpecificPkg(st, r, exists, files, analysis_type) ==
    LET python_files == GetPythonFiles("pkg", r, exists, files)
        st0 == Reset(st)
    IN  IF analysis_type \in PassNames
        THEN [st |-> RunPass("pkg", analysis_type, st0, r, python_files),
              files |-> python_files, passes |-> {analysis_type}]
        ELSE [st |-> AddWarning(st0, Finding("Unknown analysis type", "", 0, analysis_type, 0, 0)),
              files |-> python_files, passes |-> {}]

\* CodeAnalyzer.analyze_specific of the stand-alone implementation
AnalyzeSpecificLegacy(st, r, exists, files, analysis_type) ==
    LET python_files == GetPythonFiles("legacy", r, exists, files)
        st0 == Reset(st)
    IN  IF analysis_type \in {"syntax", "imports", "parameters", "methods"}
        THEN [st |-> RunPass("legacy", analysis_type, st0, r, python_files),
              files |-> python_files, passes |-> {analysis_type}]
        ELSE IF analysis_type = "comprehensive"
        THEN AnalyzeAllOp("legacy", st0, r, exists, files)
        ELSE [st |-> AddError(st0, Finding("Unknown analysis type", "", 0, analysis_type, 0, 0)),
              files |-> python_files, passes |-> {}]

AnalyzeSpecificOp(im, st, r, exists, files, analysis_type) ==
    IF im = "pkg" THEN AnalyzeSpecificPkg(st, r, exists, files, analysis_type)
    ELSE AnalyzeSpecificLegacy(st, r, exists, files, analysis_type)

\* create_code_analyzer: a new CodeAnalyzer with empty lists
NewAnalyzer(st) == [st EXCEPT !.errors = <<>>, !.warnings = <<>>, !.raised = FALSE]

\* the try block of ProjectAnalyzer.analyze_code_sync: analyze_all for
\* 'comprehensive', analyze_specific for anything else.  Its handler is
\* "except Exception"; the passes let no Exception out, and what does unwind
\* out of them (raised) is not an Exception, so the handler has no case here.
AnalyzeCodeSyncOp(st, r, exists, files, analysis_type) ==
    IF analysis_type = "comprehensive"
    THEN AnalyzeAllOp("pkg", NewAnalyzer(st), r, exists, files)
    ELSE AnalyzeSpecificPkg(NewAnalyzer(st), r, exists, files, analysis_type)

\* results['_meta'] of analyze_code_sync
Meta(analysis_type, st) ==
    [analysis_type |-> analysis_type, errors_count |-> Len(st.errors),
     warnings_count |-> Len(st.warnings)]

NoMeta == [analysis_type |-> "", errors_count |-> -1, warnings_count |-> -1]

\* {"errors": self.errors, "warnings": self.warnings}
Mapping(st, meta) == [errors |-> st.errors, warnings |-> st.warnings, meta |-> meta]

NoResult == [errors |-> <<>>, warnings |-> <<>>, meta |-> NoMeta]

(***************************************************************************)
(* Inputs: the files a tree is made of.                                    *)
(***************************************************************************)
\* app.py: import os, plugin_loader / def helper(a, b=1) / helper(1)
AppNodes ==
    <<ImportN(<<Alias("os", ""), Alias("plugin_loader", "")>>, 1, TRUE),
      FuncN("helper", <<"a", "b">>, 1, <<>>, 3, 0),
      CallN("helper", 1, 0, 5),
      LoadN("helper", 5)>>

\* deps.py: import pandas / import missing_mod / from pkg.missing import thing
\*          import loguru / from . import sibling / import _hidden
DepsNodes ==
    <<ImportN(<<Alias("pandas", "pd")>>, 1, TRUE),
      ImportN(<<Alias("missing_mod", "")>>, 2, TRUE),
      ImportFromN("pkg.missing", <<Alias("thing", "")>>, 3, TRUE),
      ImportN(<<Alias("loguru", "")>>, 4, TRUE),
      ImportFromN("", <<Alias("sibling", "")>>, 5, TRUE),
      ImportN(<<Alias("_hidden", "")>>, 6, TRUE)>>

\* core/klass.py, in the order ast.walk yields its nodes:
\*   class Calc: def compute(value) / def ok(self) / def _priv(x)
\*               @staticmethod def make() / def empty()
\*   def f(a, b, c=1) / f(1) / g(1)
KlassNodes ==
    <<ClassN("Calc", 1),
      FuncN("f", <<"a", "b", "c">>, 1, <<>>, 13, 0),
      FuncN("compute", <<"value">>, 0, <<>>, 2, 1),
      FuncN("ok", <<"self">>, 0, <<>>, 4, 1),
      FuncN("_priv", <<"x">>, 0, <<>>, 6, 1),
      FuncN("make", <<>>, 0, <<"staticmethod">>, 9, 1),
      FuncN("empty", <<>>, 0, <<>>, 11, 1),
      CallN("f", 1, 0, 15), CallN("g", 1, 0, 16),
      LoadN("staticmethod", 8), LoadN("f", 15), LoadN("g", 16)>>

ImportOnly(m) == <<ImportN(<<Alias(m, "")>>, 1, TRUE)>>

\* the files a tree of the main specification is drawn from, in the order
\* the directory walk meets them
FileCatalog ==
    <<File(<<>>, "app.py", "ok", 0, AppNodes),
      File(<<>>, "data.py", "undecodable", 0, <<>>),
      File(<<>>, "deps.py", "ok", 0, DepsNodes),
      File(<<>>, "boom.py", "ok", 0, ImportOnly("broken_mod")),
      File(<<>>, "quit.py", "ok", 0, ImportOnly("exiting_mod")),
      File(<<>>, "bad.py", "ok", 3, <<>>),
      File(<<"core">>, "klass.py", "ok", 0, KlassNodes),
      File(<<"node_modules", "lib">>, "gyp.py", "ok", 2, <<>>),
      File(<<".git", "hooks">>, "hook.py", "oserror", 0, <<>>),
      File(<<"core", "__pycache__">>, "cached.py", "undecodable", 0, <<>>)>>

\* the elements of s at the indices in S, in index order
RECURSIVE Pick(_, _, _)
Pick(s, S, i) ==
    IF i > Len(s) THEN <<>>
    ELSE (IF i \in S THEN <<s[i]>> ELSE <<>>) \o Pick(s, S, i + 1)

\* every tree of at most MaxFiles files of the catalogue
Trees ==
    {Pick(FileCatalog, S, 1) :
        S \in {T \in SUBSET (1..Len(FileCatalog)) : Cardinality(T) <= MaxFiles}}

ProjectRoot == "/work/proj"
StdlibDir == "/usr/lib/python3"

(***************************************************************************)
(* State machine of the sequential entry points.                           *)
(***************************************************************************)
AnalysisTypes ==
    {"comprehensive", "syntax", "imports", "parameters", "variables", "methods",
     "security"}

NoCall == [op |-> "", atype |-> ""]
NoPrev == [call |-> NoCall, status |-> "idle", result |-> NoResult]
NoThreads == <<>>
NoServer == <<>>

\* what holds after construction whatever the tree is
InitCommon ==
    /\ impl \in {"pkg", "legacy"}
    /\ root = ProjectRoot
    /\ sysPath \in {<<StdlibDir>>, <<StdlibDir, ProjectRoot>>}
    /\ sysModules = {"os"}
    /\ errors = <<>>
    /\ warnings = <<>>
    /\ status = "idle"
    /\ result = NoResult
    /\ call = NoCall
    /\ handed = <<>>
    /\ passesRun = {}
    /\ pathBefore = sysPath
    /\ prev = NoPrev
    /\ thr = NoThreads
    /\ srv = NoServer

Init ==
    /\ InitCommon
    /\ runs = 0
    /\ \/ rootExists = TRUE /\ tree \in Trees
       \/ rootExists = FALSE /\ tree = <<>>

\* the analyzer and interpreter state an entry point starts from
St ==
    [errors |-> errors, warnings |-> warnings, sysPath |-> sysPath,
     sysModules |-> sysModules, raised |-> FALSE]

\* an entry point is called and either returns its mapping or lets the
\* exception that unwinds out of it reach the caller
Called(op, atype, out, meta) ==
    /\ runs < MaxRuns
    /\ runs' = runs + 1
    /\ prev' = IF call = [op |-> op, atype |-> atype]
               THEN [call |-> call, status |-> status, result |-> result]
               ELSE NoPrev
    /\ call' = [op |-> op, atype |-> atype]
    /\ pathBefore' = sysPath
    /\ errors' = out.st.errors
    /\ warnings' = out.st.warnings
    /\ sysPath' = out.st.sysPath
    /\ sysModules' = out.st.sysModules
    /\ handed' = out.files
    /\ passesRun' = out.passes
    /\ status' = IF out.st.raised THEN "raised" ELSE "returned"
    /\ result' = IF out.st.raised THEN NoResult ELSE Mapping(out.st, meta)
    /\ UNCHANGED <<impl, root, rootExists, tree, thr, srv>>

\* analyzer.analyze_all()
AnalyzeAll ==
    Called("analyze_all", "comprehensive",
           AnalyzeAllOp(impl, St, root, rootExists, tree), NoMeta)

\* analyzer.analyze_specific(analysis_type)
AnalyzeSpecific(analysis_type) ==
    Called("analyze_specific", analysis_type,
           AnalyzeSpecificOp(impl, St, root, rootExists, tree, analysis_type), NoMeta)

\* ProjectAnalyzer.analyze_code_sync(project_path, analysis_type)
AnalyzeCodeSync(analysis_type) ==
    /\ impl = "pkg"
    /\ \E out \in {AnalyzeCodeSyncOp(St, root, rootExists, tree, analysis_type)} :
           Called("analyze_code_sync", analysis_type, out, Meta(analysis_type, out.st))

Next ==
    \/ AnalyzeAll
    \/ \E t \in AnalysisTypes : AnalyzeSpecific(t)
    \/ \E t \in AnalysisTypes : AnalyzeCodeSync(t)

Spec == Init /\ [][Next]_vars

(***************************************************************************)
(* Bounded inputs of the arity pass and of the method-signature pass: one  *)
(* file per tree, every shape of definition and call within the bounds.    *)
(***************************************************************************)
ParamNames == <<"a", "b", "c", "d", "e">>

\* parameter lists of n parameters, with or without a leading self
ParamLists ==
    {SubSeq(ParamNames, 1, n) : n \in 0..MaxParams}
    \cup {<<"self">> \o SubSeq(ParamNames, 1, n - 1) : n \in 1..MaxParams}

\* def f(<params>) with d defaults, and one call cname(<nargs>, <nkw>)
ArityFiles ==
    {File(<<>>, "arity.py", "ok", 0,
          <<FuncN("f", ps, d, <<>>, 1, 0), CallN(cname, na, nk, 3), LoadN(cname, 3)>>) :
        ps \in ParamLists, d \in 0..MaxParams, cname \in {"f", "g"},
        na \in 0..MaxArgs, nk \in 0..MaxKw}

\* only the files Python accepts: no more defaults than parameters
ValidArityFiles == {f \in ArityFiles : f.nodes[1].n1 <= Len(f.nodes[1].args)}

\* class Calc: with one function, a direct member of the class (cls = 1) or
\* nested deeper (cls = 0), under each decorator shape
MethodFiles ==
    {File(<<>>, "method.py", "ok", 0,
          <<ClassN("Calc", 1), FuncN(name, ps, 0, decos, 2, cls)>>) :
        name \in {"compute", "_helper"},
        ps \in ParamLists \cup {<<"value">>, <<"cls">>},
        decos \in {<<>>, <<"staticmethod">>, <<"classmethod">>, <<"">>, <<"property">>},
        cls \in {0, 1}}

\* the forms that bind a name: import os / import os as thing /
\* from os import thing / thing = ... / def thing / class thing
NameBinders(top) ==
    {ImportN(<<Alias("os", "")>>, 3, top), ImportN(<<Alias("os", "thing")>>, 3, top),
     ImportFromN("os", <<Alias("thing", "")>>, 3, top), AssignN(<<"thing">>, 3, top),
     FuncN("thing", <<>>, 0, <<>>, 3, 0), ClassN("thing", 3)}

ReadNames == {"thing", "os", "other", "_other", "OTHER", "print"}

\* one read of a name and at most one binding form, in the two orders
\* ast.walk can yield them: the binding statement first (a statement of the
\* module before the expression statement that reads), or the read first
\* (the read is an expression statement of the module, the binding sits
\* below it inside a try statement, one level deeper than the read's Expr)
NameFiles ==
    {File(<<>>, "names.py", "ok", 0, <<b, LoadN(n, 5)>>) :
        b \in NameBinders(TRUE), n \in ReadNames}
    \cup {File(<<>>, "names.py", "ok", 0, <<LoadN(n, 1), b>>) :
        b \in NameBinders(FALSE), n \in ReadNames}
    \cup {File(<<>>, "names.py", "ok", 0, <<LoadN(n, 1)>>) : n \in ReadNames}

\* one file on disk for file discovery: in the root, inside an excluded
\* directory, inside a directory whose name only contains an excluded name,
\* with a name that contains one, and one that is no Python file
DiscoveryFiles ==
    {File(dirs, name, "ok", 0, <<>>) :
        dirs \in {<<>>, <<"venv">>, <<"prevenv">>, <<"core", "__pycache__">>,
                  <<"node_modules">>, <<"core">>},
        name \in {"mod.py", "venv_setup.py", "notes.txt"}}

\* each input is analysed by one call
InitInputs ==
    /\ InitCommon
    /\ runs = MaxRuns - 1
    /\ rootExists = TRUE
    /\ tree \in {<<f>> : f \in ValidArityFiles \cup MethodFiles \cup NameFiles
                                 \cup DiscoveryFiles}

SpecInputs == InitInputs /\ [][Next]_vars

(***************************************************************************)
(* Import passes of several analyses running at the same time, each on a   *)
(* worker thread of its own analysis (analyze_all_async hands              *)
(* _check_import_errors to its executor; two analyze_code background tasks *)
(* have two executors).  One step per statement of _check_module_exists    *)
(* that reads or writes sys.path.                                          *)
(***************************************************************************)
Threads == {1, 2}
ConcRoots == {"/work/projA", "/work/projB"}
ConcModules == {"loguru", "missing_mod", "exiting_mod"}

\* the module names an import pass has to resolve: 1..MaxAttempts of them
ModuleLists ==
    UNION {[1..n -> ConcModules] : n \in 1..MaxAttempts}

InitConc ==
    /\ impl = "pkg"
    /\ root = ProjectRoot
    /\ rootExists = TRUE
    /\ tree = <<>>
    /\ sysPath = <<StdlibDir>>
    /\ sysModules = {"os"}
    /\ errors = <<>>
    /\ warnings = <<>>
    /\ status = "idle"
    /\ result = NoResult
    /\ call = NoCall
    /\ handed = <<>>
    /\ passesRun = {}
    /\ pathBefore = sysPath
    /\ prev = NoPrev
    /\ runs = 0
    /\ srv = NoServer
    /\ thr \in [Threads -> {[pc |-> "save", root |-> r, todo |-> ms,
                             original_path |-> <<>>, raised |-> FALSE,
                             errors |-> <<>>, warnings |-> <<>>] :
                            r \in ConcRoots, ms \in ModuleLists}]

ConcUnchanged ==
    UNCHANGED <<impl, root, rootExists, tree, errors, warnings, status, result,
                call, handed, passesRun, pathBefore, prev, runs, srv>>

\* original_path = sys.path.copy()
SavePath(t) ==
    /\ thr[t].pc = "save"
    /\ thr' = [thr EXCEPT ![t].original_path = sysPath, ![t].pc = "test"]
    /\ UNCHANGED <<sysPath, sysModules>>
    /\ ConcUnchanged

\* if str(self.project_root) not in sys.path:
TestRoot(t) ==
    /\ thr[t].pc = "test"
    /\ thr' = [thr EXCEPT ![t].pc = IF thr[t].root \notin Range(sysPath)
                                    THEN "insert" ELSE "import"]
    /\ UNCHANGED <<sysPath, sysModules>>
    /\ ConcUnchanged

\* sys.path.insert(0, str(self.project_root))
InsertRoot(t) ==
    /\ thr[t].pc = "insert"
    /\ sysPath' = <<thr[t].root>> \o sysPath
    /\ thr' = [thr EXCEPT ![t].pc = "import"]
    /\ UNCHANGED sysModules
    /\ ConcUnchanged

\* importlib.import_module(module_name) and the except clauses
Resolve(t) ==
    /\ thr[t].pc = "import"
    /\ \E st2 \in {ClassifyImport(
                       ImportModule([errors |-> thr[t].errors,
                                     warnings |-> thr[t].warnings,
                                     sysPath |-> sysPath, sysModules |-> sysModules,
                                     raised |-> FALSE],
                                    Head(thr[t].todo)),
                       Head(thr[t].todo), thr[t].root \o "/mod.py")} :
           /\ sysPath' = st2.sysPath
           /\ sysModules' = st2.sysModules
           /\ thr' = [thr EXCEPT ![t].pc = "finally", ![t].raised = st2.raised,
                                 ![t].errors = st2.errors,
                                 ![t].warnings = st2.warnings]
    /\ ConcUnchanged

\* finally: sys.path = original_path; then the next module of the pass, or
\* the end of the pass (normally, or unwinding when the import raised)
Restore(t) ==
    /\ thr[t].pc = "finally"
    /\ sysPath' = thr[t].original_path
    /\ thr' = [thr EXCEPT ![t].todo = Tail(@),
                          ![t].pc = IF thr[t].raised THEN "unwound"
                                    ELSE IF Len(thr[t].todo) > 1 THEN "save"
                                    ELSE "done"]
    /\ UNCHANGED sysModules
    /\ ConcUnchanged

NextConc ==
    \E t \in Threads :
        \/ SavePath(t)
        \/ TestRoot(t)
        \/ InsertRoot(t)
        \/ Resolve(t)
        \/ Restore(t)

SpecConc == InitConc /\ [][NextConc]_vars

\* every import pass has returned or unwound
AllPassesOver == \A t \in Threads : thr[t].pc \in {"done", "unwound"}

(***************************************************************************)
(* Properties.                                                             *)
(***************************************************************************)
\* number of entries of the list that satisfy P
CountIf(P(_), list) == Cardinality({i \in 1..Len(list) : P(list[i])})

EntryOps == {"analyze_all", "analyze_specific", "analyze_code_sync"}

\* C1: every call of an analysis entry point returns a mapping whose errors
\* and warnings are lists; none lets an exception reach the caller, whatever
\* the files do (unreadable, undecodable, unparseable, import failing in any
\* way) and whether or not the root exists.
C1_AlwaysReturnsMapping ==
    call.op \in EntryOps =>
        /\ status = "returned"
        /\ {"errors", "warnings"} \subseteq DOMAIN result
        /\ DOMAIN result.errors = 1..Len(result.errors)
        /\ DOMAIN result.warnings = 1..Len(result.warnings)

ArityKinds == {"PARAMETER ERROR requires", "PARAMETER ERROR max"}

\* the counts the arity rule is stated on: t = positional parameters without
\* a leading self, r = t minus the defaults
C2_Total(def) ==
    Len(def.args) - (IF def.args # <<>> /\ Head(def.args) = "self" THEN 1 ELSE 0)
C2_Required(def) == C2_Total(def) - def.n1

\* the entries of errors the arity pass wrote for the call at that line
C2_ErrorsFor(path, c) ==
    {i \in 1..Len(errors) : /\ errors[i].kind \in ArityKinds
                            /\ errors[i].file = path
                            /\ errors[i].line = c.lineno
                            /\ errors[i].name = c.name}

SyntaxKinds == {"Syntax error", "SYNTAX ERROR"}

\* C3: after the syntax pass alone, errors holds exactly one entry for each
\* handed file whose text the grammar rejects, with the file's path and the
\* parser's line number, and nothing else; a file that cannot be decoded has
\* one warning and no error.
C3_SyntaxPass ==
    (status = "returned" /\ passesRun = {"syntax"}) =>
        /\ \A i \in 1..Len(errors) :
              /\ errors[i].kind \in SyntaxKinds
              /\ \E k \in 1..Len(handed) : errors[i].file = PathStr(root, handed[k])
        /\ \A k \in 1..Len(handed) :
              LET f == handed[k]
                  About(e) == e.file = PathStr(root, f)
              IN  /\ (f.read = "ok" /\ f.synline > 0) =>
                        /\ CountIf(About, errors) = 1
                        /\ \A i \in 1..Len(errors) :
                              About(errors[i]) => errors[i].line = f.synline
                  /\ (f.read = "ok" /\ f.synline = 0) => CountIf(About, errors) = 0
                  /\ f.read = "undecodable" =>
                        /\ CountIf(About, errors) = 0
                        /\ CountIf(About, warnings) = 1

\* the syntax pass has run on a tree holding a file that does not parse and a
\* file that cannot be decoded
C3_Witness ==
    /\ status = "returned"
    /\ passesRun = {"syntax"}
    /\ \E k \in 1..Len(handed) : handed[k].read = "ok" /\ handed[k].synline > 0
    /\ \E k \in 1..Len(handed) : handed[k].read = "undecodable"
    /\ Len(errors) = 1
    /\ Len(warnings) = 1

UnresolvedKinds ==
    {"Cannot import", "Potential missing module", "IMPORT ERROR", "MISSING DEPENDENCY"}

\* the optional-dependency allow-list the import rule is stated on
C4_AllowList == {"selenium", "streamlit", "loguru", "pandas", "playwright"}

\* C4: after the import pass alone, a finding about a module that could not be
\* resolved is a warning when the module is on the allow-list and an error
\* when it is not, and a module that resolved has no finding.
C4_AllowListRule ==
    (status = "returned" /\ passesRun = {"imports"}) =>
        /\ \A i \in 1..Len(errors) :
              (errors[i].kind \in UnresolvedKinds
               /\ ModuleTable(errors[i].name) = "ImportError")
                  => errors[i].name \notin C4_AllowList
        /\ \A i \in 1..Len(warnings) :
              (warnings[i].kind \in UnresolvedKinds
               /\ ModuleTable(warnings[i].name) = "ImportError")
                  => warnings[i].name \in C4_AllowList
        /\ \A i \in 1..Len(errors) :
              ModuleTable(errors[i].name) \notin {"found", "found_path"}
        /\ \A i \in 1..Len(warnings) :
              ModuleTable(warnings[i].name) \notin {"found", "found_path"}

\* the entries of errors the method-signature pass wrote for a method
C5_ErrorsFor(path, m) ==
    {i \in 1..Len(errors) : /\ errors[i].kind = "METHOD ERROR"
                            /\ errors[i].file = path
                            /\ errors[i].line = m.lineno
                            /\ errors[i].name = m.name}

\* C5: after the method-signature pass, every method defined directly in a
\* class body whose name has no leading underscore, that has no staticmethod
\* or classmethod decorator and whose parameter list is empty or does not
\* start with self, has exactly one error naming it and its line; a method
\* whose first parameter is self has none.
C5_MethodRule ==
    (status = "returned" /\ "methods" \in passesRun) =>
        \A k \in 1..Len(handed) :
            LET f == handed[k] IN
            \A i \in 1..Len(f.nodes) :
                LET m == f.nodes[i] IN
                (m.type = "FunctionDef" /\ m.cls # 0) =>
                    /\ (/\ SubSeq(m.name, 1, 1) # "_"
                        /\ \A j \in 1..Len(m.decos) :
                              m.decos[j] \notin {"staticmethod", "classmethod"}
                        /\ (m.args = <<>> \/ Head(m.args) # "self"))
                          => Cardinality(C5_ErrorsFor(PathStr(root, f), m)) = 1
                    /\ (m.args # <<>> /\ Head(m.args) = "self")
                          => C5_ErrorsFor(PathStr(root, f), m) = {}

\* the method-signature pass has run on class Calc: def compute(value) and
\* reported compute
C5_Witness ==
    /\ status = "returned"
    /\ call = [op |-> "analyze_specific", atype |-> "methods"]
    /\ Len(tree) = 1
    /\ tree[1].name = "method.py"
    /\ tree[1].nodes[2].name = "compute"
    /\ tree[1].nodes[2].args = <<"value">>
    /\ tree[1].nodes[2].decos = <<>>
    /\ tree[1].nodes[2].cls = 1
    /\ Len(errors) = 1
    /\ errors[1].name = "compute"
    /\ errors[1].line = 2

\* the directory names analysed code never lives in
C6_ExclusionSet == {"__pycache__", ".pytest_cache", "venv", ".git", "node_modules"}

\* C6: whatever the analysis type, no file handed to a pass lies inside a
\* directory whose name is in the exclusion set, at any depth.
C6_NoExcludedFile ==
    \A k \in 1..Len(handed) :
        \A j \in 1..Len(handed[k].dirs) : handed[k].dirs[j] \notin C6_ExclusionSet

C8_Dispatching ==
    \/ call.op = "analyze_code_sync"
    \/ call.op = "analyze_specific" /\ (impl = "legacy" \/ call.atype # "comprehensive")

\* C8: 'comprehensive' runs the five passes, each of the five pass names runs
\* its own pass only, and any other value runs no pass and returns no error
\* and exactly one warning, the one saying the type is unknown.
C8_Dispatch ==
    (C8_Dispatching /\ status = "returned") =>
        /\ call.atype = "comprehensive" => passesRun = PassNames
        /\ call.atype \in PassNames => passesRun = {call.atype}
        /\ call.atype \notin PassNames \cup {"comprehensive"} =>
              /\ passesRun = {}
              /\ result.errors = <<>>
              /\ Len(result.warnings) = 1
              /\ result.warnings[1].kind = "Unknown analysis type"

\* C9: when a call that ran the import pass returns or unwinds, sys.path is
\* what it was when the call started, whatever the resolution attempts did.
C9_PathRestored ==
    (call.op \in EntryOps /\ "imports" \in passesRun) => sysPath = pathBefore

\* C10: once the concurrent import passes have all returned or unwound,
\* sys.path is what it was before any of them started.
C10_PathRestoredAfterAll ==
    AllPassesOver => sysPath = pathBefore

\* the file cannot be read, decoded or parsed
Broken(f) == f.read # "ok" \/ f.synline > 0

\* the findings, of either bucket, that name the file
FindingsFor(path) ==
    CountIf(LAMBDA x : x.file = path, errors) + CountIf(LAMBDA x : x.file = path, warnings)

\* C11: when one pass has been run over a file list, every file of the list
\* that cannot be read, decoded or parsed has its finding, whatever happened
\* on the files before it: no file's failure stops the pass from checking
\* the files after it.
C11_EveryFileChecked ==
    (call.op = "analyze_specific" /\ passesRun = {call.atype}) =>
        \A k \in 1..Len(handed) :
            Broken(handed[k]) => FindingsFor(PathStr(root, handed[k])) >= 1

\* the findings about the analysed code that the errors bucket is for: a
\* syntax error, an unresolvable import, an arity mismatch, a method whose
\* first parameter is not the receiver
CodeFindingKinds ==
    {"Syntax error", "SYNTAX ERROR", "Cannot import", "IMPORT ERROR",
     "PARAMETER ERROR requires", "PARAMETER ERROR max", "METHOD ERROR"}

\* C12: every entry of the errors bucket returned to the caller is a finding
\* about the analysed code; a failure of the analyzer itself, an unrecognised
\* analysis type included, only ever adds to warnings.
C12_ErrorsAreCodeFindings ==
    (call.op \in EntryOps /\ status = "returned") =>
        \A i \in 1..Len(result.errors) : result.errors[i].kind \in CodeFindingKinds


(***************************************************************************)
(* The MCP server: configuration, request handlers and dispatch.           *)
(***************************************************************************)
\* An optional argument is <<>> when the request does not give the key and
\* <<v>> when it gives the value v.
\* dict.get(key, default)
Get(opt, default) == IF opt = <<>> THEN default ELSE opt[1]

OutputFormats == {"markdown", "plain", "json"}

\* default of max_file_size: 1024 * 1024
DefaultMaxFileSize == 1048576

\* the configuration keys followed here, none of them given
EmptyDict == [output_format |-> <<>>, max_file_size |-> <<>>,
              enable_background_mode |-> <<>>]

\* dict.update(new)
Merge(d, new) == [k \in DOMAIN d |-> IF new[k] = <<>> THEN d[k] ELSE new[k]]

NoResponse ==
    [kind |-> "none", text |-> "", isError |-> FALSE, errors_count |-> -1,
     warnings_count |-> -1, rendered |-> ""]

\* a handler returned a string
Text(text, rendered) == [NoResponse EXCEPT !.kind = "str", !.text = text, !.rendered = rendered]

\* an exception left the call
Raised(exc) == [NoResponse EXCEPT !.kind = "raised", !.text = exc]

NoRequest == [op |-> "", tool |-> "", given |-> FALSE, in_loop |-> FALSE]
NoArgs == [output_format |-> <<>>, max_file_size |-> <<>>]
NoTask ==
    [pc |-> "none", task_name |-> "", args |-> NoArgs, old_format |-> "",
     old_max_size |-> 0]

\* ProjectAnalyzerConfig.__init__(config_dict): every attribute is read from
\* the dict, with its default when the key is absent; configured records the
\* output format this configuration gives
ConfigInit(s, config_dict) ==
    [s EXCEPT !.dict = config_dict,
              !.output_format = Get(config_dict.output_format, "markdown"),
              !.configured = Get(config_dict.output_format, "markdown"),
              !.max_file_size = Get(config_dict.max_file_size, DefaultMaxFileSize),
              !.enable_background_mode = Get(config_dict.enable_background_mode, TRUE)]

\* ProjectAnalyzerMCPServer.__init__; writable tells whether the directory the
\* results are saved in can be created and written
NewServer(writable) ==
    ConfigInit([dict |-> EmptyDict, output_format |-> "", max_file_size |-> 0,
                enable_background_mode |-> TRUE, configured |-> "markdown",
                writable |-> writable, pc |-> "idle", task |-> NoTask,
                req |-> NoRequest, resp |-> NoResponse, n |-> 0],
               EmptyDict)

\* handle_configure_analyzer: the package merges the given keys into the
\* dict it holds (update_config), the stand-alone server builds a new
\* configuration from the given keys alone
HandleConfigureAnalyzerOp(im, s, config_dict) ==
    [ConfigInit(s, IF im = "pkg" THEN Merge(s.dict, config_dict) ELSE config_dict)
        EXCEPT !.resp = Text("Configuration updated successfully", "")]

\* handle_project_structure / handle_analyze_files up to the try: the
\* arguments are read with the configured values as defaults, the old
\* values are saved and the request's values are put in the configuration
SaveAndSet(s, handler, args) ==
    [s EXCEPT !.output_format = Get(args.output_format, s.output_format),
              !.max_file_size = IF handler = "analyze_files"
                                THEN Get(args.max_file_size, s.max_file_size) ELSE @]

\* the try statement of the two handlers: the analyzer renders in the format
\* the configuration holds when the text is put together; the walk of
\* generate_project_structure raises on a root that does not exist; the
\* finally clause puts the saved values back
RenderAndRestore(s, handler, old_format, old_max_size, exists) ==
    [s EXCEPT !.resp = IF handler = "project_structure" /\ ~exists
                       THEN Text("Error", "")
                       ELSE Text(handler, s.output_format),
              !.output_format = old_format,
              !.max_file_size = IF handler = "analyze_files" THEN old_max_size ELSE @]

\* handle_project_structure(args)
HandleProjectStructureOp(s, args, exists) ==
    RenderAndRestore(SaveAndSet(s, "project_structure", args), "project_structure",
                     s.output_format, s.max_file_size, exists)

\* handle_analyze_files(args)
HandleAnalyzeFilesOp(s, args, exists) ==
    RenderAndRestore(SaveAndSet(s, "analyze_files", args), "analyze_files",
                     s.output_format, s.max_file_size, exists)

\* CodeAnalyzer.run_background_analysis: analyze_all_async hands the five
\* passes to a thread pool and waits for all of them, analyze_specific runs
\* in the caller.  The threads decide the order of the findings, not their
\* number, and an exception of a pass reaches the caller through gather.
RunBackgroundAnalysis(st, r, exists, files, analysis_type) ==
    IF analysis_type = "comprehensive"
    THEN AnalyzeAllOp("pkg", NewAnalyzer(st), r, exists, files)
    ELSE AnalyzeSpecificPkg(NewAnalyzer(st), r, exists, files, analysis_type)

\* the analysis of handle_analyze_code_async (ProjectAnalyzer.analyze_code_async
\* in background mode, analyze_code_sync otherwise) and of _handle_analyze_code
RunAnalysis(im, background, st, r, exists, files, analysis_type) ==
    IF im = "pkg"
    THEN IF background
         THEN RunBackgroundAnalysis(st, r, exists, files, analysis_type)
         ELSE AnalyzeCodeSyncOp(st, r, exists, files, analysis_type)
    ELSE IF analysis_type = "comprehensive"
         THEN AnalyzeAllOp("legacy", NewAnalyzer(st), r, exists, files)
         ELSE AnalyzeSpecificLegacy(NewAnalyzer(st), r, exists, files, analysis_type)

\* what handle_analyze_code_async / _handle_analyze_code hand back after the
\* analysis out: the dict with isError computed from the errors list, or the
\* dict of their "except Exception" handler.  The package saves through
\* safe_write_file, which swallows a failure; the stand-alone save_results
\* lets the OSError of an unwritable directory reach the handler.
AnalyzeCodeResponse(im, out, save_results, writable) ==
    IF out.st.raised THEN Raised("SystemExit")
    ELSE IF im = "legacy" /\ save_results /\ ~writable
    THEN [NoResponse EXCEPT !.kind = "dict", !.text = "Error during code analysis",
                            !.isError = TRUE]
    ELSE [NoResponse EXCEPT !.kind = "dict", !.text = "results",
                            !.isError = Len(out.st.errors) > 0,
                            !.errors_count = Len(out.st.errors),
                            !.warnings_count = Len(out.st.warnings)]

\* the dispatch of process_mcp_request_async / process_mcp_request on the
\* tool of a request; out is the analysis an analyze_code request runs.  The
\* package serialises the dict of analyze_code, the stand-alone server
\* returns it as it is.
Dispatch(im, s, out, exists, well_formed, tool, arguments) ==
    IF ~well_formed THEN [s EXCEPT !.resp = Text("Error processing request", "")]
    ELSE IF tool = "project_structure" THEN HandleProjectStructureOp(s, arguments, exists)
    ELSE IF tool = "analyze_files" THEN HandleAnalyzeFilesOp(s, arguments, exists)
    ELSE IF tool = "analyze_code"
    THEN [s EXCEPT !.resp = IF im = "pkg" /\ ~out.st.raised
                            THEN Text("json", "")
                            ELSE AnalyzeCodeResponse(im, out, arguments.save_results,
                                                     s.writable)]
    ELSE IF tool = "configure_analyzer" THEN HandleConfigureAnalyzerOp(im, s, arguments)
    ELSE [s EXCEPT !.resp = Text("Unknown tool", "")]

(***************************************************************************)
(* State machine of the server.                                            *)
(***************************************************************************)
MaxRequests == 2   \* requests one behaviour of the server serves

\* the request gives no output_format, or one the configuration never sets
OptionalFormats == {<<>>, <<"json">>}
StructureArgs == {[output_format |-> f, max_file_size |-> <<>>] : f \in OptionalFormats}
FilesArgs ==
    {[output_format |-> f, max_file_size |-> m] :
        f \in OptionalFormats, m \in {<<>>, <<2048>>}}
ConfigDicts ==
    {[EmptyDict EXCEPT !.output_format = <<"plain">>],
     [EmptyDict EXCEPT !.max_file_size = <<2048>>, !.enable_background_mode = <<FALSE>>]}
CodeArgs ==
    {[analysis_type |-> t, save_results |-> w] :
        t \in {"comprehensive", "variables"}, w \in BOOLEAN}
TaskNames == {"analyze_files", "project_structure", "cleanup"}

\* the projects the server is asked about: no directory, an empty one, and
\* one file of the catalogue
ServerTrees == {<<>>} \cup {<<FileCatalog[i]>> : i \in {3, 5}}

InitServer ==
    /\ impl \in {"pkg", "legacy"}
    /\ root = ProjectRoot
    /\ \/ rootExists = TRUE /\ tree \in ServerTrees
       \/ rootExists = FALSE /\ tree = <<>>
    /\ sysPath = <<StdlibDir>>
    /\ sysModules = {"os"}
    /\ errors = <<>>
    /\ warnings = <<>>
    /\ status = "idle"
    /\ result = NoResult
    /\ call = NoCall
    /\ handed = <<>>
    /\ passesRun = {}
    /\ pathBefore = sysPath
    /\ prev = NoPrev
    /\ runs = 0
    /\ thr = NoThreads
    /\ srv \in {NewServer(w) : w \in BOOLEAN}

ServerUnchanged ==
    UNCHANGED <<impl, root, rootExists, tree, status, result, call, handed,
                passesRun, pathBefore, prev, runs, thr>>

AnalyzerUnchanged == UNCHANGED <<errors, warnings, sysPath, sysModules>>

\* a request is taken and served: s is the server after the handler
Serve(s, op, tool, given, in_loop) ==
    /\ srv.pc = "idle"
    /\ srv.n < MaxRequests
    /\ srv' = [s EXCEPT !.req = [op |-> op, tool |-> tool, given |-> given,
                                 in_loop |-> in_loop],
                        !.n = srv.n + 1]
    /\ ServerUnchanged

\* the interpreter and the analyzer after the analysis out
Analyzed(out) ==
    /\ errors' = out.st.errors
    /\ warnings' = out.st.warnings
    /\ sysPath' = out.st.sysPath
    /\ sysModules' = out.st.sysModules

\* server.handle_project_structure(args)
HandleProjectStructure(args) ==
    /\ Serve(HandleProjectStructureOp(srv, args, rootExists), "handle_project_structure",
             "project_structure", args.output_format # <<>>, FALSE)
    /\ AnalyzerUnchanged

\* server.handle_analyze_files(args)
HandleAnalyzeFiles(args) ==
    /\ Serve(HandleAnalyzeFilesOp(srv, args, rootExists), "handle_analyze_files",
             "analyze_files", args.output_format # <<>>, FALSE)
    /\ AnalyzerUnchanged

\* server.handle_configure_analyzer({'config': config_dict})
HandleConfigureAnalyzer(config_dict) ==
    /\ Serve(HandleConfigureAnalyzerOp(impl, srv, config_dict),
             "handle_configure_analyzer", "configure_analyzer", FALSE, FALSE)
    /\ AnalyzerUnchanged

\* the caller blocks the thread of the running loop in result(timeout=30)
\* on a coroutine that only this loop can run
Wait(op, tool) ==
    /\ Serve([srv EXCEPT !.pc = "waiting", !.resp = NoResponse], op, tool, FALSE, TRUE)
    /\ AnalyzerUnchanged

\* await server.handle_analyze_code_async(args) /
\* server._handle_analyze_code(args)
HandleAnalyzeCodeAsync(args) ==
    \E out \in {RunAnalysis(impl, srv.enable_background_mode, St, root, rootExists,
                            tree, args.analysis_type)} :
        /\ Serve([srv EXCEPT !.resp = AnalyzeCodeResponse(impl, out, args.save_results,
                                                          srv.writable)],
                 IF impl = "pkg" THEN "handle_analyze_code_async"
                 ELSE "_handle_analyze_code",
                 "analyze_code", FALSE, FALSE)
        /\ Analyzed(out)

\* server.handle_analyze_code(args) of the package: inside a running loop
\* the coroutine is handed to that loop and waited for, otherwise
\* get_running_loop raises RuntimeError and asyncio.run runs the coroutine
HandleAnalyzeCode(args, in_loop) ==
    /\ impl = "pkg"
    /\ IF in_loop
       THEN Wait("handle_analyze_code", "analyze_code")
       ELSE \E out \in {RunAnalysis(impl, srv.enable_background_mode, St, root,
                                    rootExists, tree, args.analysis_type)} :
                /\ Serve([srv EXCEPT !.resp = AnalyzeCodeResponse(impl, out,
                                                  args.save_results, srv.writable)],
                         "handle_analyze_code", "analyze_code", FALSE, FALSE)
                /\ Analyzed(out)

\* server.handle_get_stats(args) of the package: the same two branches; the
\* statistics are put in a dict that is no error
HandleGetStats(in_loop) ==
    /\ impl = "pkg"
    /\ IF in_loop
       THEN Wait("handle_get_stats", "get_stats")
       ELSE /\ Serve([srv EXCEPT !.resp = [NoResponse EXCEPT !.kind = "dict",
                                                             !.text = "stats"]],
                     "handle_get_stats", "get_stats", FALSE, FALSE)
            /\ AnalyzerUnchanged

\* the wait of result(timeout=30) ends: the loop was blocked by the wait
\* itself, the coroutine never ran, and the TimeoutError of the future, which
\* is not a RuntimeError, leaves the call
WaitExpires ==
    /\ srv.pc = "waiting"
    /\ srv' = [srv EXCEPT !.pc = "idle", !.resp = Raised("TimeoutError")]
    /\ ServerUnchanged
    /\ AnalyzerUnchanged

NoAnalysis == [st |-> St, files |-> <<>>, passes |-> {}]

\* server.process_mcp_request(request_json)
ProcessMcpRequest(well_formed, tool, arguments, in_loop) ==
    IF impl = "pkg" /\ in_loop
    THEN Wait("process_mcp_request", tool)
    ELSE \E out \in {IF well_formed /\ tool = "analyze_code"
                     THEN RunAnalysis(impl, srv.enable_background_mode, St, root,
                                      rootExists, tree, arguments.analysis_type)
                     ELSE NoAnalysis} :
             /\ Serve(Dispatch(impl, srv, out, rootExists, well_formed, tool, arguments),
                      "process_mcp_request",
                      IF well_formed THEN tool ELSE "", FALSE, FALSE)
             /\ Analyzed(out)

\* start_background_task(task_name, args) of the package: the task of the
\* handler is created on the loop and the call returns
StartBackgroundTask(task_name, args) ==
    /\ impl = "pkg"
    /\ srv.task.pc = "none"
    /\ Serve([srv EXCEPT
                 !.resp = IF ~srv.enable_background_mode
                          THEN Text("Background mode is disabled", "")
                          ELSE IF task_name \notin {"analyze_files", "project_structure"}
                          THEN Text("Unknown task type", "")
                          ELSE Text("Background task started", ""),
                 !.task = IF srv.enable_background_mode
                             /\ task_name \in {"analyze_files", "project_structure"}
                          THEN [NoTask EXCEPT !.pc = "created", !.task_name = task_name,
                                              !.args = args]
                          ELSE @],
             "start_background_task", task_name, FALSE, FALSE)
    /\ AnalyzerUnchanged

\* the executor thread of the task enters the handler and reaches its try
TaskBegins ==
    /\ srv.task.pc = "created"
    /\ srv' = [SaveAndSet(srv, srv.task.task_name, srv.task.args) EXCEPT
                  !.task.pc = "running",
                  !.task.old_format = srv.output_format,
                  !.task.old_max_size = srv.max_file_size]
    /\ ServerUnchanged
    /\ AnalyzerUnchanged

\* the executor thread of the task leaves the handler; the text goes to the
\* task, not to a caller
TaskEnds ==
    /\ srv.task.pc = "running"
    /\ srv' = [RenderAndRestore(srv, srv.task.task_name, srv.task.old_format,
                                srv.task.old_max_size, rootExists) EXCEPT
                  !.task = NoTask, !.resp = srv.resp]
    /\ ServerUnchanged
    /\ AnalyzerUnchanged

NextServer ==
    \/ \E a \in StructureArgs : HandleProjectStructure(a)
    \/ \E a \in FilesArgs : HandleAnalyzeFiles(a)
    \/ \E c \in ConfigDicts : HandleConfigureAnalyzer(c)
    \/ \E a \in CodeArgs : HandleAnalyzeCodeAsync(a)
    \/ \E a \in CodeArgs, l \in BOOLEAN : HandleAnalyzeCode(a, l)
    \/ \E l \in BOOLEAN : HandleGetStats(l)
    \/ WaitExpires
    \/ \E a \in StructureArgs, l \in BOOLEAN :
           ProcessMcpRequest(TRUE, "project_structure", a, l)
    \/ \E a \in CodeArgs, l \in BOOLEAN : ProcessMcpRequest(TRUE, "analyze_code", a, l)
    \/ \E t \in {"configure_analyzer", "restart"}, w \in BOOLEAN, l \in BOOLEAN :
           ProcessMcpRequest(w, t, EmptyDict, l)
    \/ \E t \in TaskNames, a \in FilesArgs : StartBackgroundTask(t, a)
    \/ TaskBegins
    \/ TaskEnds

SpecServer == InitServer /\ [][NextServer]_vars


(***************************************************************************)
(* Properties of the server.                                               *)
(***************************************************************************)
\* the 30-second wait of handle_analyze_code has ended
WaitEnded(op) == srv.req.op = op /\ srv.req.in_loop /\ srv.pc = "idle"

\* C13: when the 30-second wait of the synchronous handle_analyze_code ends
\* before the analysis has finished, the caller still receives a result (the
\* dict of the handler), and no exception leaves the call.
C13_TimeoutYieldsResult ==
    WaitEnded("handle_analyze_code") => srv.resp.kind = "dict"

\* C14: the response of analyze_code has isError true exactly when the errors
\* list of the analysis holds at least one entry; warnings alone never set it.
C14_IsErrorIffErrors ==
    (srv.req.tool = "analyze_code" /\ srv.resp.kind = "dict") =>
        (srv.resp.isError <=> Len(errors) > 0)

\* C15: when handle_project_structure or handle_analyze_files returns,
\* config.output_format and config.max_file_size equal their values before
\* the call, and a request that gives no output_format is rendered in the
\* format of the most recent configuration.
C15_RequestScopedFormat ==
    [][(srv'.n = srv.n + 1
        /\ srv'.req.op \in {"handle_project_structure", "handle_analyze_files"}) =>
           /\ srv'.output_format = srv.output_format
           /\ srv'.max_file_size = srv.max_file_size
           /\ (~srv'.req.given /\ srv'.resp.text # "Error") =>
                  srv'.resp.rendered = srv'.configured]_vars

\* C16: process_mcp_request returns for every request and never raises:
\* malformed JSON gives the text "Error processing request", an unknown tool
\* gives "Unknown tool", and a handler that fails gives a string.
C16_NeverRaises ==
    (srv.req.op = "process_mcp_request" /\ srv.pc = "idle") =>
        /\ srv.resp.kind # "raised"
        /\ srv.req.tool = "" => srv.resp.text = "Error processing request"
        /\ srv.req.tool = "restart" => srv.resp.text = "Unknown tool"
        /\ (srv.req.tool = "project_structure" /\ ~rootExists) =>
               (srv.resp.kind = "str" /\ srv.resp.text = "Error")


(***************************************************************************)
(* Properties of the method-signature and undefined-name passes.           *)
(***************************************************************************)
\* C17: the method-signature pass appends no error for a method whose name
\* starts with an underscore, nor for a method decorated with staticmethod or
\* classmethod, whatever its parameter list, the empty one included.
C17_ExemptMethods ==
    (status = "returned" /\ "methods" \in passesRun) =>
        \A k \in 1..Len(handed) :
            \A i \in 1..Len(handed[k].nodes) :
                (/\ handed[k].nodes[i].type = "FunctionDef"
                 /\ handed[k].nodes[i].cls # 0
                 /\ \/ StartsWith(handed[k].nodes[i].name, "_")
                    \/ \E j \in 1..Len(handed[k].nodes[i].decos) :
                           handed[k].nodes[i].decos[j] \in {"staticmethod", "classmethod"})
                    => C5_ErrorsFor(PathStr(root, handed[k]), handed[k].nodes[i]) = {}


\* the names the nodes of a file bind, wherever they are
AllBound(f) == UNION {NamesBoundBy(f.nodes[i]) : i \in 1..Len(f.nodes)}

\* the warnings of the undefined-name pass for one read
UndefinedFor(path, node) ==
    {i \in 1..Len(warnings) : /\ warnings[i].kind = "UNDEFINED VARIABLE"
                              /\ warnings[i].file = path
                              /\ warnings[i].line = node.lineno
                              /\ warnings[i].name = node.name}

\* C18: after the undefined-name pass, no read of an identifier that the file
\* binds anywhere (import alias or name, assignment target, function or class
\* name) has a 'may be undefined' warning, wherever the binding node comes in
\* the order of the walk.
C18_BoundAnywhereIsKnown ==
    (status = "returned" /\ "variables" \in passesRun) =>
        \A k \in 1..Len(handed) :
            \A i \in 1..Len(handed[k].nodes) :
                (/\ handed[k].nodes[i].type = "NameLoad"
                 /\ handed[k].nodes[i].name \in AllBound(handed[k]))
                    => UndefinedFor(PathStr(root, handed[k]), handed[k].nodes[i]) = {}

\* C19: after the undefined-name pass, no read of a built-in identifier
\* (print, len, str, Exception, ...) has a warning, also in a file that binds
\* no name.
C19_BuiltinsSeeded ==
    (status = "returned" /\ "variables" \in passesRun) =>
        \A i \in 1..Len(warnings) :
            warnings[i].kind = "UNDEFINED VARIABLE" => warnings[i].name \notin BuiltinNames


\* the names known when the walk reaches node i of a file: the seed and what
\* the nodes before it bind
KnownAt(f, i) == SeedNames(impl) \cup UNION {NamesBoundBy(f.nodes[j]) : j \in 1..(i - 1)}

\* the findings of the undefined-name pass
VariableKinds ==
    {"UNDEFINED VARIABLE", "Could not check variables for",
     "Could not check undefined variables in"}

\* C20: after the undefined-name pass, a read of an identifier has a finding
\* if and only if the identifier is absent from the known set, does not start
\* with an underscore and is not entirely upper-case; the finding is one
\* warning, and errors holds no finding of the pass.
C20_ReadRule ==
    (status = "returned" /\ "variables" \in passesRun) =>
        /\ \A k \in 1..Len(handed) :
               \A i \in 1..Len(handed[k].nodes) :
                   handed[k].nodes[i].type = "NameLoad" =>
                       Cardinality(UndefinedFor(PathStr(root, handed[k]), handed[k].nodes[i]))
                           = IF /\ handed[k].nodes[i].name \notin KnownAt(handed[k], i)
                                /\ SubSeq(handed[k].nodes[i].name, 1, 1) # "_"
                                /\ ~IsUpper(handed[k].nodes[i].name)
                             THEN 1 ELSE 0
        /\ \A i \in 1..Len(errors) : errors[i].kind \notin VariableKinds

\* the pass has run on a file whose only node reads other, which nothing
\* binds, and has reported the read with one warning
C20_Witness ==
    /\ status = "returned"
    /\ call = [op |-> "analyze_all", atype |-> "comprehensive"]
    /\ Len(tree) = 1
    /\ tree[1].name = "names.py"
    /\ Len(tree[1].nodes) = 1
    /\ tree[1].nodes[1].name = "other"
    /\ Cardinality(UndefinedFor(PathStr(root, tree[1]), tree[1].nodes[1])) = 1
    /\ \A i \in 1..Len(errors) : errors[i].kind \notin VariableKinds


(***************************************************************************)
(* Properties of file discovery and of the passes taken together.          *)
(***************************************************************************)
\* the directory names the implementation's file discovery excludes
C21_ExclusionSet == IF impl = "pkg" THEN PkgSkipParts ELSE LegacySkipDirs

\* C21: file discovery hands over exactly the .py files of the tree that have
\* no ancestor directory below the root named in the exclusion set; a name
\* of the set occurring inside a file name, inside another directory name or
\* inside the root path excludes nothing.
C21_DiscoveryByDirectoryName ==
    (call.op \in EntryOps /\ rootExists) =>
        \A k \in 1..Len(tree) :
            (tree[k] \in Range(handed)) <=>
                /\ EndsWith(tree[k].name, ".py")
                /\ \A j \in 1..Len(tree[k].dirs) : tree[k].dirs[j] \notin C21_ExclusionSet


\* the errors / the warnings that the single-pass analyses of AllPasses[i..]
\* return, each run by analyze_specific on the tree as it is
RECURSIVE SinglePassErrors(_)
SinglePassErrors(i) ==
    IF i > Len(AllPasses) THEN <<>>
    ELSE AnalyzeSpecificOp(impl, St, root, rootExists, tree, AllPasses[i]).st.errors
         \o SinglePassErrors(i + 1)

RECURSIVE SinglePassWarnings(_)
SinglePassWarnings(i) ==
    IF i > Len(AllPasses) THEN <<>>
    ELSE AnalyzeSpecificOp(impl, St, root, rootExists, tree, AllPasses[i]).st.warnings
         \o SinglePassWarnings(i + 1)

\* the comprehensive analysis all agrees with the five single-pass analyses
C22_Agrees(all) ==
    ~all.st.raised =>
        /\ SameMultiset(all.st.errors, SinglePassErrors(1))
        /\ SameMultiset(all.st.warnings, SinglePassWarnings(1))

\* C22: on an unchanged tree, the errors and the warnings of the
\* comprehensive analysis equal, as multisets, the union of the errors and
\* the warnings of the five single-pass analyses.
C22_PassesIndependent ==
    C22_Agrees(AnalyzeAllOp(impl, St, root, rootExists, tree))


\* C23: in a comprehensive run of the package implementation, a file that
\* does not parse has exactly one entry in errors, the one of the syntax
\* pass, and one warning from each of the four passes that parse it again;
\* no finding is in both buckets.
C23_OneErrorPerDefect ==
    (impl = "pkg" /\ status = "returned" /\ passesRun = Range(AllPasses)) =>
        /\ \A k \in 1..Len(handed) :
               (handed[k].read = "ok" /\ handed[k].synline > 0) =>
                   /\ CountIf(LAMBDA e : e.file = PathStr(root, handed[k]), errors) = 1
                   /\ CountIf(LAMBDA e : e.file = PathStr(root, handed[k])
                                         /\ e.kind = "Syntax error", errors) = 1
                   /\ CountIf(LAMBDA w : w.file = PathStr(root, handed[k]), warnings) = 4
        /\ \A i \in 1..Len(errors) : \A j \in 1..Len(warnings) : errors[i] # warnings[j]

\* the comprehensive run of the package has returned for a tree with a file
\* that does not parse: one syntax error and four warnings name it
C23_Witness ==
    /\ impl = "pkg"
    /\ status = "returned"
    /\ call.op = "analyze_all"
    /\ Len(handed) = 1
    /\ handed[1].synline > 0
    /\ Len(errors) = 1
    /\ errors[1].kind = "Syntax error"
    /\ Len(warnings) = 4


(***************************************************************************)
(* analyze_all_async: the five passes on the threads of one executor, all  *)
(* appending to the lists of the one analyzer.  A step is one iteration of *)
(* a pass's loop over the files: list.append is atomic, only the import    *)
(* pass touches sys.path and sys.modules, and every pass reads the files   *)
(* from disk, so a finer interleaving changes nothing but the order of the *)
(* entries.                                                                *)
(***************************************************************************)
MaxWorkers == 2   \* max_workers of the executor

\* the trees the concurrent analysis is followed on
AsyncTrees ==
    {<<>>} \cup {<<FileCatalog[i]>> : i \in {1, 2, 3, 5, 6, 7}}
    \cup {<<FileCatalog[6], FileCatalog[7]>>}

\* a pass not submitted yet
NoWork == [pc |-> "none", i |-> 0]

InitAsync ==
    /\ impl = "pkg"
    /\ root = ProjectRoot
    /\ rootExists = TRUE
    /\ tree \in AsyncTrees
    /\ sysPath \in {<<StdlibDir>>, <<StdlibDir, ProjectRoot>>}
    /\ sysModules = {"os"}
    /\ errors = <<>>
    /\ warnings = <<>>
    /\ status = "idle"
    /\ result = NoResult
    /\ call = NoCall
    /\ handed = <<>>
    /\ passesRun = {}
    /\ pathBefore = sysPath
    /\ prev = NoPrev
    /\ runs = 0
    /\ srv = NoServer
    /\ thr \in {[max_workers |-> w, pass |-> [p \in PassNames |-> NoWork]] :
                   w \in 1..MaxWorkers}

AsyncUnchanged == UNCHANGED <<impl, root, rootExists, tree, prev, runs, srv>>

\* one iteration of the loop of pass p, on file f
PassOne(p, st, r, f) ==
    CASE p = "syntax"     -> SyntaxOnePkg(st, r, f)
      [] p = "imports"    -> ImportOnePkg(st, r, f)
      [] p = "parameters" -> ParamsOne("pkg", st, r, f)
      [] p = "variables"  -> VariablesOne("pkg", st, r, f)
      [] p = "methods"    -> MethodsOne("pkg", st, r, f)

\* whether gather and the exit of the executor's with block let the
\* coroutine go on: every submitted pass has ended
AnyFinished(work) == \E p \in PassNames : work[p].pc \in {"done", "raised"}

AllFinished(work) == \A p \in PassNames : work[p].pc \in {"done", "raised"}

\* analyze_all_async up to the await: the lists are emptied, the files are
\* collected and the five passes are submitted to the executor
SubmitPasses ==
    /\ call = NoCall
    /\ call' = [op |-> "analyze_all_async", atype |-> "comprehensive"]
    /\ errors' = <<>>
    /\ warnings' = <<>>
    /\ handed' = GetPythonFilesPkg(root, rootExists, tree)
    /\ pathBefore' = sysPath
    /\ thr' = [thr EXCEPT !.pass = [p \in PassNames |-> [pc |-> "queued", i |-> 1]]]
    /\ UNCHANGED <<sysPath, sysModules, status, result, passesRun>>
    /\ AsyncUnchanged

\* a free worker thread takes the pass submitted first among those waiting
WorkerTakes(k) ==
    /\ thr.pass[AllPasses[k]].pc = "queued"
    /\ \A j \in 1..(k - 1) : thr.pass[AllPasses[j]].pc # "queued"
    /\ Cardinality({p \in PassNames : thr.pass[p].pc = "running"}) < thr.max_workers
    /\ thr' = [thr EXCEPT !.pass[AllPasses[k]].pc = "running"]
    /\ UNCHANGED <<errors, warnings, sysPath, sysModules, status, result, call,
                   handed, passesRun, pathBefore>>
    /\ AsyncUnchanged

\* the thread of pass p handles its next file; an exception that the pass
\* does not catch ends the thread and is kept in its future
PassStep(p) ==
    /\ thr.pass[p].pc = "running"
    /\ thr.pass[p].i <= Len(handed)
    /\ \E out \in {PassOne(p, St, root, handed[thr.pass[p].i])} :
           /\ errors' = out.errors
           /\ warnings' = out.warnings
           /\ sysPath' = out.sysPath
           /\ sysModules' = out.sysModules
           /\ thr' = [thr EXCEPT !.pass[p].pc = IF out.raised THEN "raised" ELSE @,
                                 !.pass[p].i = @ + 1]
    /\ UNCHANGED <<status, result, call, handed, passesRun, pathBefore>>
    /\ AsyncUnchanged

\* the loop of pass p is over and its thread is free again
PassEnds(p) ==
    /\ thr.pass[p].pc = "running"
    /\ thr.pass[p].i > Len(handed)
    /\ thr' = [thr EXCEPT !.pass[p].pc = "done"]
    /\ passesRun' = passesRun \cup {p}
    /\ UNCHANGED <<errors, warnings, sysPath, sysModules, status, result, call,
                   handed, pathBefore>>
    /\ AsyncUnchanged

\* await asyncio.gather(*tasks) and the end of the with block: the lists are
\* returned, or the exception kept in a future reaches the caller
Gather ==
    /\ call.op = "analyze_all_async"
    /\ status = "idle"
    /\ AllFinished(thr.pass)
    /\ status' = IF \E p \in PassNames : thr.pass[p].pc = "raised"
                 THEN "raised" ELSE "returned"
    /\ result' = IF \E p \in PassNames : thr.pass[p].pc = "raised"
                 THEN NoResult ELSE Mapping(St, NoMeta)
    /\ UNCHANGED <<errors, warnings, sysPath, sysModules, call, handed, passesRun,
                   pathBefore, thr>>
    /\ AsyncUnchanged

NextAsync ==
    \/ SubmitPasses
    \/ \E k \in 1..Len(AllPasses) : WorkerTakes(k)
    \/ \E p \in PassNames : PassStep(p)
    \/ \E p \in PassNames : PassEnds(p)
    \/ Gather

SpecAsync == InitAsync /\ [][NextAsync]_vars

\* the interpreter and the analyzer when analyze_all_async was called
StartState ==
    [errors |-> <<>>, warnings |-> <<>>, sysPath |-> pathBefore,
     sysModules |-> {"os"}, raised |-> FALSE]

\* the result of analyze_all_async equals the result all of analyze_all
C24_SameAs(all) ==
    /\ ~all.st.raised
    /\ SameMultiset(result.errors, all.st.errors)
    /\ SameMultiset(result.warnings, all.st.warnings)
    /\ \A p \in PassNames : thr.pass[p].pc = "done"

\* C24: when analyze_all_async returns, in any interleaving of its worker
\* threads and for any max_workers, its errors and warnings equal as
\* multisets those the sequential analyze_all returns for the same tree, and
\* all five passes have finished.
C24_AsyncEqualsSequential ==
    (call.op = "analyze_all_async" /\ status = "returned") =>
        C24_SameAs(AnalyzeAllOp("pkg", StartState, root, rootExists, tree))

\* the order of the warnings differs from the sequential one
C24_OtherOrder(all) == result.warnings # all.st.warnings /\ result.errors # <<>>

\* analyze_all_async has returned with two workers, errors and warnings, the
\* warnings in another order than analyze_all puts them in
C24_Witness ==
    /\ call.op = "analyze_all_async"
    /\ status = "returned"
    /\ thr.max_workers = 2
    /\ C24_OtherOrder(AnalyzeAllOp("pkg", StartState, root, rootExists, tree))


(***************************************************************************)
(* The registry of background tasks of the package server:                 *)
(* self._background_tasks, task id -> task.  srv holds the registry, the   *)
(* ids handed out and not collected yet, and the last answer.              *)
(***************************************************************************)
MaxStarts == 3   \* calls of start_background_task in one behaviour

\* str(n) for the lengths the registry can have
Digits == <<"1", "2", "3", "4", "5", "6", "7", "8", "9">>
Str(n) == IF n = 0 THEN "0" ELSE Digits[n]

\* f"{task_name}_{len(self._background_tasks)}"
TaskId(task_name, background_tasks) ==
    task_name \o "_" \o Str(Cardinality(DOMAIN background_tasks))

\* d without the key k: del d[k]
Del(d, k) == [x \in DOMAIN d \ {k} |-> d[x]]

\* d[k] = v
Put(d, k, v) == [x \in DOMAIN d \cup {k} |-> IF x = k THEN v ELSE d[x]]

StartableTasks == {"analyze_code", "analyze_files", "project_structure"}

InitTasks ==
    /\ impl = "pkg"
    /\ root = ProjectRoot
    /\ rootExists = TRUE
    /\ tree = <<>>
    /\ sysPath = <<StdlibDir>>
    /\ sysModules = {"os"}
    /\ errors = <<>>
    /\ warnings = <<>>
    /\ status = "idle"
    /\ result = NoResult
    /\ call = NoCall
    /\ handed = <<>>
    /\ passesRun = {}
    /\ pathBefore = sysPath
    /\ prev = NoPrev
    /\ runs = 0
    /\ thr = NoThreads
    /\ srv \in {[enable_background_mode |-> b, background_tasks |-> <<>>,
                 pending |-> {}, collected |-> {}, starts |-> 0, answer |-> ""] :
                b \in BOOLEAN}

TasksUnchanged ==
    UNCHANGED <<impl, root, rootExists, tree, sysPath, sysModules, errors, warnings,
                status, result, call, handed, passesRun, pathBefore, prev, runs, thr>>

\* the registry after start_background_task(task_name, args): the id is made
\* from the name and the present size of the registry, and the new task is
\* stored under it
Register(background_tasks, task_name, task) ==
    Put(background_tasks, TaskId(task_name, background_tasks), task)

\* start_background_task(task_name, args) on the server s; the task started
\* by the k-th call is task k, and answer is what the call returns
StartBackgroundTaskOp(s, task_name) ==
    IF ~s.enable_background_mode
    THEN [s EXCEPT !.starts = @ + 1, !.answer = "Background mode is disabled"]
    ELSE IF task_name \notin StartableTasks
    THEN [s EXCEPT !.starts = @ + 1, !.answer = "Unknown task type: " \o task_name]
    ELSE [s EXCEPT
             !.starts = @ + 1,
             !.answer = "Background task started: " \o TaskId(task_name, s.background_tasks),
             !.background_tasks =
                 Register(@, task_name,
                          [task |-> s.starts + 1, done |-> FALSE, outcome |-> ""]),
             !.pending = @ \cup {[id |-> TaskId(task_name, s.background_tasks),
                                  task |-> s.starts + 1]}]

StartTask(task_name) ==
    /\ srv.starts < MaxStarts
    /\ srv' = StartBackgroundTaskOp(srv, task_name)
    /\ TasksUnchanged

\* the coroutine of a registered task comes to its end, with a result or with
\* an exception
TaskDone(task_id, outcome) ==
    /\ task_id \in DOMAIN srv.background_tasks
    /\ ~srv.background_tasks[task_id].done
    /\ srv' = [srv EXCEPT !.background_tasks[task_id].done = TRUE,
                          !.background_tasks[task_id].outcome = outcome]
    /\ TasksUnchanged

\* get_background_task_result(task_id) on the server s: a finished task is
\* handed over and taken out of the registry, whether it holds a result or
\* an exception; collected remembers the ids whose outcome has been handed
\* over, and answer is the status of the dict returned ("not found" for the
\* dict that has an error and no status)
GetBackgroundTaskResultOp(s, task_id) ==
    IF task_id \notin DOMAIN s.background_tasks
    THEN [s EXCEPT !.answer = "not found"]
    ELSE IF s.background_tasks[task_id].done
    THEN [s EXCEPT !.answer = IF s.background_tasks[task_id].outcome = "result"
                              THEN "completed"
                              ELSE "failed",
                   !.background_tasks = Del(@, task_id),
                   !.pending = {e \in @ : e.id # task_id},
                   !.collected = @ \cup {task_id}]
    ELSE [s EXCEPT !.answer = "running"]

GetBackgroundTaskResult(task_id) ==
    /\ srv' = GetBackgroundTaskResultOp(srv, task_id)
    /\ TasksUnchanged

\* the ids a caller can ask about
TaskIds == {n \o "_" \o Str(k) : n \in StartableTasks, k \in 0..(MaxStarts - 1)}

NextTasks ==
    \/ \E n \in {"analyze_code", "analyze_files", "cleanup"} : StartTask(n)
    \/ \E id \in TaskIds, outcome \in {"result", "exception"} : TaskDone(id, outcome)
    \/ \E id \in TaskIds : GetBackgroundTaskResult(id)

SpecTasks == InitTasks /\ [][NextTasks]_vars

\* C25: every task id handed out by start_background_task and not collected
\* yet is still in the registry and still maps to the task that was started
\* under it.
C25_IdsKeepTheirTask ==
    \A e \in srv.pending :
        /\ e.id \in DOMAIN srv.background_tasks
        /\ srv.background_tasks[e.id].task = e.task

\* C26: a query about a registered task that is not done answers "running"
\* and leaves the registry alone; a query about a task that is done answers
\* "completed" or "failed" and takes the task out of the registry; a query
\* about an id whose outcome has been handed over answers "not found".
C26_DeliveredOnce ==
    [][\A id \in TaskIds :
          GetBackgroundTaskResult(id) =>
              /\ (id \in DOMAIN srv.background_tasks /\ ~srv.background_tasks[id].done)
                    => /\ srv'.answer = "running"
                       /\ srv'.background_tasks = srv.background_tasks
              /\ (id \in DOMAIN srv.background_tasks /\ srv.background_tasks[id].done)
                    => /\ srv'.answer \in {"completed", "failed"}
                       /\ id \notin DOMAIN srv'.background_tasks
              /\ id \in srv.collected => srv'.answer = "not found"]_vars


(***************************************************************************)
(* handle_project_structure_async and handle_analyze_files_async: each     *)
(* request runs its synchronous handler on a thread of the default         *)
(* executor, and the handlers share the configuration of the server.       *)
(* thr holds one record per request.                                       *)
(***************************************************************************)
MaxThreads == 2   \* requests running on executor threads at the same time

\* the values the requests carry
CarriedFormats == {<<>>, <<"json">>, <<"plain">>}
CarriedSizes == {<<>>, <<2048>>}

ExecutorRequests ==
    {[handler |-> "project_structure", args |-> a] :
        a \in {[output_format |-> f, max_file_size |-> <<>>] : f \in CarriedFormats}}
    \cup
    {[handler |-> "analyze_files", args |-> a] :
        a \in {[output_format |-> f, max_file_size |-> m] :
                  f \in CarriedFormats, m \in CarriedSizes}}

\* a request handed to run_in_executor and not started yet
Queued(request) ==
    [pc |-> "queued", handler |-> request.handler, args |-> request.args,
     old_format |-> "", old_max_size |-> 0, rendered |-> "", size_used |-> 0]

InitExec ==
    /\ impl = "pkg"
    /\ root = ProjectRoot
    /\ rootExists = TRUE
    /\ tree = <<>>
    /\ sysPath = <<StdlibDir>>
    /\ sysModules = {"os"}
    /\ errors = <<>>
    /\ warnings = <<>>
    /\ status = "idle"
    /\ result = NoResult
    /\ call = NoCall
    /\ handed = <<>>
    /\ passesRun = {}
    /\ pathBefore = sysPath
    /\ prev = NoPrev
    /\ runs = 0
    /\ thr \in [1..MaxThreads -> {Queued(request) : request \in ExecutorRequests}]
    /\ srv = NewServer(TRUE)

ExecUnchanged ==
    UNCHANGED <<impl, root, rootExists, tree, sysPath, sysModules, errors, warnings,
                status, result, call, handed, passesRun, pathBefore, prev, runs>>

\* the thread of request t runs its handler up to the try: it keeps the
\* values it finds in the configuration and puts its own there
ExecutorBegins(t) ==
    /\ thr[t].pc = "queued"
    /\ thr' = [thr EXCEPT ![t].pc = "running",
                          ![t].old_format = srv.output_format,
                          ![t].old_max_size = srv.max_file_size]
    /\ srv' = SaveAndSet(srv, thr[t].handler, thr[t].args)
    /\ ExecUnchanged

\* the thread of request t runs the try statement: should_include_file reads
\* max_file_size and the formatter reads output_format from the
\* configuration as it is now, and the finally clause puts back what the
\* thread kept
ExecutorEnds(t) ==
    /\ thr[t].pc = "running"
    /\ srv' = RenderAndRestore(srv, thr[t].handler, thr[t].old_format,
                               thr[t].old_max_size, rootExists)
    /\ thr' = [thr EXCEPT ![t].pc = "done",
                          ![t].rendered = srv'.resp.rendered,
                          ![t].size_used = srv.max_file_size]
    /\ ExecUnchanged

NextExec == \E t \in 1..MaxThreads : ExecutorBegins(t) \/ ExecutorEnds(t)

SpecExec == InitExec /\ [][NextExec]_vars

\* C27: a request that has finished was rendered in the output format it
\* carried and, for analyze_files, with the size limit it carried; when all
\* the requests have finished, the configuration holds the output format and
\* the size limit it held before the first of them started.
C27_RequestsIsolated ==
    /\ \A t \in 1..MaxThreads :
          thr[t].pc = "done" =>
              /\ thr[t].args.output_format # <<>> =>
                    thr[t].rendered = thr[t].args.output_format[1]
              /\ (thr[t].handler = "analyze_files" /\ thr[t].args.max_file_size # <<>>) =>
                    thr[t].size_used = thr[t].args.max_file_size[1]
    /\ (\A t \in 1..MaxThreads : thr[t].pc = "done") =>
          /\ srv.output_format = NewServer(TRUE).output_format
          /\ srv.max_file_size = NewServer(TRUE).max_file_size


(***************************************************************************)
(* main_async in --async-test mode: the coroutine starts the background    *)
(* analysis and asks for its result once a second.  The task is the        *)
(* asynchronous comprehensive analysis; its coroutine runs on the event    *)
(* loop while main_async sleeps, its passes run on the worker threads.     *)
(* srv holds the registry, the position of main_async (pc) and its local   *)
(* variable task_id.                                                       *)
(***************************************************************************)
InitPoll ==
    /\ impl = "pkg"
    /\ root = ProjectRoot
    /\ rootExists = TRUE
    /\ tree \in AsyncTrees
    /\ sysPath \in {<<StdlibDir>>, <<StdlibDir, ProjectRoot>>}
    /\ sysModules = {"os"}
    /\ errors = <<>>
    /\ warnings = <<>>
    /\ status = "idle"
    /\ result = NoResult
    /\ call = NoCall
    /\ handed = <<>>
    /\ passesRun = {}
    /\ pathBefore = sysPath
    /\ prev = NoPrev
    /\ runs = 0
    /\ thr \in {[max_workers |-> w, pass |-> [p \in PassNames |-> NoWork]] :
                   w \in 1..MaxWorkers}
    /\ srv = [enable_background_mode |-> TRUE, background_tasks |-> <<>>,
              pending |-> {}, collected |-> {}, starts |-> 0, answer |-> "",
              pc |-> "start", task_id |-> ""]

\* task_id = await server.start_background_task("analyze_code", {...}): the
\* local variable takes what the call returns
MainStarts ==
    /\ srv.pc = "start"
    /\ srv' = [StartBackgroundTaskOp(srv, "analyze_code") EXCEPT
                  !.pc = "polling",
                  !.task_id = StartBackgroundTaskOp(srv, "analyze_code").answer]
    /\ TasksUnchanged

\* the registry with the state of the running task as task.done() and
\* task.result() find it: handle_analyze_code_async has returned when the
\* analysis has
Observed(s) ==
    [s EXCEPT !.background_tasks =
        [id \in DOMAIN @ |-> [@[id] EXCEPT !.done = (status = "returned"),
                                           !.outcome = IF status = "returned"
                                                       THEN "result" ELSE ""]]]

\* one turn of the while loop: the query, and the break on 'completed' or
\* 'failed'; an exception that left the task has ended the event loop
MainPolls ==
    /\ srv.pc = "polling"
    /\ status # "raised"
    /\ srv' = [GetBackgroundTaskResultOp(Observed(srv), srv.task_id) EXCEPT
                  !.pc = IF GetBackgroundTaskResultOp(Observed(srv), srv.task_id).answer
                              \in {"completed", "failed"}
                         THEN "exited" ELSE "sleeping"]
    /\ TasksUnchanged

\* await asyncio.sleep(1) is over
MainWakes ==
    /\ srv.pc = "sleeping"
    /\ status # "raised"
    /\ srv' = [srv EXCEPT !.pc = "polling"]
    /\ TasksUnchanged

\* the coroutine of the task gets the event loop while main_async sleeps
TaskOnLoop ==
    /\ srv.pc = "sleeping"
    /\ DOMAIN srv.background_tasks # {}
    /\ SubmitPasses \/ Gather

\* the worker threads of the task
TaskOnThreads ==
    \/ \E k \in 1..Len(AllPasses) : WorkerTakes(k)
    \/ \E p \in PassNames : PassStep(p)
    \/ \E p \in PassNames : PassEnds(p)

NextPoll ==
    \/ MainStarts
    \/ MainPolls
    \/ MainWakes
    \/ TaskOnLoop
    \/ TaskOnThreads

\* main_async goes on as long as it has a step to take: the event loop runs
\* a coroutine that is ready
SpecPoll ==
    /\ InitPoll
    /\ [][NextPoll]_vars
    /\ WF_vars(MainStarts \/ MainPolls \/ MainWakes)

\* C28: once the analysis started by start_background_task has finished, the
\* polling loop of main_async sees 'completed' or 'failed' and comes to its
\* end.
C28_PollingEnds ==
    (srv.pc # "start" /\ status = "returned") ~> (srv.pc = "exited")

\* the synchronous wrappers that hand their coroutine to the running loop
C29_Wrappers == {"handle_analyze_code", "handle_get_stats", "process_mcp_request"}

\* C29: when a synchronous wrapper called from a thread with a running event
\* loop has ended its wait, the caller holds what the coroutine returned: the
\* wait has not ended in the TimeoutError of the 30 seconds.
C29_WaitReturnsResult ==
    \A op \in C29_Wrappers :
        WaitEnded(op) => srv.resp.kind \in {"dict", "str"}

\* C30: every definition recorded by the arity pass has
\* 0 <= required_args <= total_args, a definition whose self parameter
\* carries a default included.
C30_RequiredWithinTotal ==
    "parameters" \in passesRun =>
        \A k \in 1..Len(handed) :
            (handed[k].read = "ok" /\ handed[k].synline = 0) =>
                \A n \in DOMAIN FunctionDefs(handed[k].nodes) :
                    /\ 0 <= FunctionDefs(handed[k].nodes)[n].required_args
                    /\ FunctionDefs(handed[k].nodes)[n].required_args
                          <= FunctionDefs(handed[k].nodes)[n].total_args

====
